---- MODULE Spec2Model ----
(***************************************************************************)
(* Retry policy engine (src/utils/retry.ts) and the remote execution       *)
(* client built on it (FabricClient).                                      *)
(*                                                                         *)
(* Text is a sequence of tokens: digits and the punctuation that the code  *)
(* inspects are single characters, the rest are words.  String.includes is *)
(* contiguous sub-sequence search, template literals are concatenation.    *)
(***************************************************************************)
EXTENDS Integers, Sequences, FiniteSets, TLC

\* ------------------------------------------------------------------ bounds
MaxRetriesBound == 2   \* largest explicit maxRetries option explored
JitterSteps == 2       \* Math.random() takes the values r/JitterSteps, r < JitterSteps

\* --------------------------------------------------------------- constants
DefaultMaxRetries == 3
DefaultBaseDelayMs == 1000
DefaultMaxDelayMs == 10000
RETRYABLE_STATUS_CODES == {429, 502, 503, 504}

\* -------------------------------------------------------------------- text
Includes(s, t) ==
  \E i \in 0..(Len(s) - Len(t)) : SubSeq(s, i + 1, i + Len(t)) = t

Digit(d) == <<"0", "1", "2", "3", "4", "5", "6", "7", "8", "9">>[d + 1]

RECURSIVE Decimal(_)
Decimal(n) ==
  IF n < 10 THEN <<Digit(n)>> ELSE Decimal(n \div 10) \o <<Digit(n % 10)>>

StatusMarker(code) == <<"(">> \o Decimal(code) \o <<")">>

\* ------------------------------------------------------------------ errors
\* A thrown value: id is the invocation that raised it (object identity),
\* type its class ("Error", "TypeError", "SyntaxError", or "string" for a
\* thrown non-Error), msg its message (String(error) for a non-Error).
Undefined == [id |-> 0, type |-> "undefined", msg |-> <<"undefined">>]
NoValue == [id |-> 0, val |-> "none"]

InstanceOfTypeError(error) == error.type = "TypeError"
InstanceOfError(error) == error.type \in {"Error", "TypeError", "SyntaxError"}

NetworkMarkers ==
  { <<"ECONNREFUSED">>, <<"ECONNRESET">>, <<"ETIMEDOUT">>, <<"EAI_AGAIN">>,
    <<"fetch", " failed">> }

HasNetworkMarker(message) == \E m \in NetworkMarkers : Includes(message, m)

HasStatusMarker_three(message) ==
  \E code \in RETRYABLE_STATUS_CODES \ {504} : Includes(message, StatusMarker(code))
HasStatusMarker(message) ==
  \E code \in RETRYABLE_STATUS_CODES : Includes(message, StatusMarker(code))

isRetryableError(error) ==
  IF InstanceOfTypeError(error) /\ Includes(error.msg, <<"fetch">>)
  THEN TRUE
  ELSE HasNetworkMarker(error.msg) \/ HasStatusMarker(error.msg)

\* The custom predicate of the test suite:
\*   (err) => err instanceof Error && err.message.includes("custom-retryable")
customShouldRetry(error) ==
  InstanceOfError(error) /\ Includes(error.msg, <<"custom-retryable">>)

\* ----------------------------------------------------------------- options
Option(options, key, default) ==
  IF key \in DOMAIN options THEN options[key] ELSE default

maxRetriesOf(options) == Option(options, "maxRetries", DefaultMaxRetries)
baseDelayMsOf(options) == Option(options, "baseDelayMs", DefaultBaseDelayMs)
maxDelayMsOf(options) == Option(options, "maxDelayMs", DefaultMaxDelayMs)
shouldRetryOf(options) == Option(options, "shouldRetry", "isRetryableError")

shouldRetry_default(options, error) == isRetryableError(error)
shouldRetry(options, error) ==
  IF shouldRetryOf(options) = "isRetryableError"
  THEN isRetryableError(error)
  ELSE customShouldRetry(error)

Min(a, b) == IF a <= b THEN a ELSE b

backoffDelay_uncapped(options, i) == baseDelayMsOf(options) * 2 ^ i
backoffDelay(options, i) ==
  Min(baseDelayMsOf(options) * 2 ^ i, maxDelayMsOf(options))

\* Durations are kept in units of 1/TimeScale ms so that
\* delay * 0.1 * Math.random() stays an integer.
TimeScale == 10 * JitterSteps
jitterOf(delay, r) == delay * r
sleepMs(delay, r) == delay * TimeScale + jitterOf(delay, r)

retriesExhausted_late(i, options) == i > maxRetriesOf(options)
retriesExhausted(i, options) == i >= maxRetriesOf(options)

\* attempt >= maxRetries || !shouldRetry(error)
mustPropagate_ignorePredicate(i, options, error) == retriesExhausted(i, options)
mustPropagate(i, options, error) ==
  retriesExhausted(i, options) \/ ~shouldRetry(options, error)

\* ------------------------------------------------------------ FabricClient
RECURSIVE stripTrailingSlashes(_)
stripTrailingSlashes_one(url) ==
  IF url # <<>> /\ url[Len(url)] = "/" THEN SubSeq(url, 1, Len(url) - 1) ELSE url
stripTrailingSlashes(url) ==
  IF url # <<>> /\ url[Len(url)] = "/"
  THEN stripTrailingSlashes(SubSeq(url, 1, Len(url) - 1))
  ELSE url

FabricClient_dropOptions(url, apiKey, retryOptions) ==
  [url |-> stripTrailingSlashes(url), apiKey |-> apiKey, retryOptions |-> [k \in {} |-> 0]]
FabricClient(url, apiKey, retryOptions) ==
  [url |-> stripTrailingSlashes(url), apiKey |-> apiKey, retryOptions |-> retryOptions]

\* URLSearchParams.toString(): application/x-www-form-urlencoded
urlEncodeToken(t) ==
  CASE t = ":" -> <<"%3A">>
    [] t = " " -> <<"+">>
    [] t = "/" -> <<"%2F">>
    [] OTHER -> <<t>>

RECURSIVE urlEncode(_)
urlEncode(text) ==
  IF text = <<>> THEN <<>> ELSE urlEncodeToken(Head(text)) \o urlEncode(Tail(text))

\* An omitted capability argument is the value NoCapability (undefined)
NoCapability == <<"\\undefined">>

discoverQuery(capability) ==
  IF capability # NoCapability /\ capability # <<>>
  THEN <<"capability", "=">> \o urlEncode(capability)
  ELSE <<>>

discoverPath(capability) ==
  <<"/api/fabric/discover/nodes">> \o
    (IF discoverQuery(capability) # <<>> THEN <<"?">> \o discoverQuery(capability) ELSE <<>>)

statusPath == <<"/api/fabric/nodes/load">>
enqueuePath == <<"/api/fabric/call">>

\* JSON.stringify({ workflow, input })
enqueueBody(workflow, input) ==
  <<"{", "\"workflow\"", ":", workflow, ",", "\"input\"", ":", input, "}">>

NoBody == <<"\\undefined">>

\* The (path, RequestInit) pair each public method hands to request()
requestArgs(call) ==
  CASE call.op = "discover" ->
         [path |-> discoverPath(call.capability), method |-> "GET", body |-> NoBody]
    [] call.op = "status" ->
         [path |-> statusPath, method |-> "GET", body |-> NoBody]
    [] call.op = "enqueueWorkflow" ->
         [path |-> enqueuePath, method |-> "POST",
          body |-> enqueueBody(call.workflow, call.input)]

requestHeaders(c) ==
  [Authorization |-> <<"Bearer ", c.apiKey>>, ContentType |-> <<"application/json">>]

\* The arguments of one fetch() call
fetchRequest(c, call) ==
  [url |-> c.url \o requestArgs(call).path,
   method |-> requestArgs(call).method,
   body |-> requestArgs(call).body,
   headers |-> requestHeaders(c)]

responseOk(status) == status >= 200 /\ status <= 299

errorDetail_bodyOnly(body, statusText) == body
errorDetail(body, statusText) == IF body # <<>> THEN body ELSE statusText

fabricErrorMessage(status, body, statusText) ==
  <<"Fabric API error ", "(">> \o Decimal(status) \o <<")", ": ">>
    \o errorDetail(body, statusText)

\* the number of characters of a token of a response body
charCount(token) ==
  CASE token = "html>" -> 5
    [] token = " upst" -> 5
    [] token = "ream busy" -> 9
    [] OTHER -> 1

\* the tokens that lie within the first n characters of the text
RECURSIVE firstChars(_, _)
firstChars(text, n) ==
  IF text = <<>> \/ charCount(Head(text)) > n THEN <<>>
  ELSE <<Head(text)>> \o firstChars(Tail(text), n - charCount(Head(text)))

\* The message of the SyntaxError that response.json() rejects with when the
\* body does not start a JSON document. It is the engine's: Node.js 18 names
\* the offending character and its position, Node.js 20 and later also quote
\* the first ten characters of the text.
jsonSyntaxMessage(engine, body) ==
  IF engine = "position"
  THEN <<"Unexpected token ", Head(body), " in JSON at position 0">>
  ELSE <<"Unexpected token ", "'", Head(body), "'", ", ", "\"">>
         \o firstChars(body, 10)
         \o (IF firstChars(body, 10) = body
             THEN <<"\"", " is not valid JSON">>
             ELSE <<"\"", "... is not valid JSON">>)

\* What the async function handed to withRetry does with the result of
\* fetch(): the outcome of one attempt, raised by invocation `id`.
requestOutcome(id, res) ==
  IF res.kind = "networkError"
  THEN [kind |-> "throw",
        error |-> [id |-> id, type |-> "TypeError", msg |-> <<"fetch", " failed">>]]
  ELSE IF ~responseOk(res.status)
  THEN [kind |-> "throw",
        error |-> [id |-> id, type |-> "Error",
                   msg |-> fabricErrorMessage(res.status, res.body, res.statusText)]]
  ELSE IF res.json = "invalid"
  THEN [kind |-> "throw",
        error |-> [id |-> id, type |-> "SyntaxError",
                   msg |-> jsonSyntaxMessage(res.engine, res.body)]]
  ELSE [kind |-> "return", value |-> [id |-> id, val |-> res.json]]

\* ------------------------------------------------------------------ inputs
DelayPairs == { <<1, 3>>, <<2, 3>>, <<0, 5>>, <<3, 2>> }

EmptyOptions == [k \in {} |-> 0]

ExplicitOptions(pairs) ==
  { [maxRetries |-> n, baseDelayMs |-> p[1], maxDelayMs |-> p[2]] :
      n \in -1..MaxRetriesBound, p \in pairs }
  \cup
  { [maxRetries |-> n, baseDelayMs |-> p[1], maxDelayMs |-> p[2],
     shouldRetry |-> "custom"] : n \in -1..MaxRetriesBound, p \in pairs }

RetryOptions == {EmptyOptions} \cup ExplicitOptions(DelayPairs)
ClientRetryOptions == RetryOptions

\* Values an arbitrary operation may throw: (class, message)
ThrownValues ==
  { <<"Error", <<"ECONNREFUSED">>>>,
    <<"Error", <<"connect ", "ECONNRESET">>>>,
    <<"string", <<"ETIMEDOUT">>>>,
    <<"Error", <<"getaddrinfo ", "EAI_AGAIN">>>>,
    <<"Error", <<"fetch", " failed">>>>,
    <<"TypeError", <<"Failed to ", "fetch">>>>,
    <<"Error", <<"Failed to ", "fetch">>>>,
    <<"TypeError", <<"x is not a function">>>>,
    <<"Error", <<"custom-retryable">>>>,
    <<"Error", fabricErrorMessage(403, <<"Forbidden">>, <<>>)>>,
    <<"Error", fabricErrorMessage(429, <<"Too Many Requests">>, <<>>)>>,
    <<"Error", fabricErrorMessage(502, <<"Bad Gateway">>, <<>>)>>,
    <<"Error", fabricErrorMessage(503, <<"Service Unavailable">>, <<>>)>>,
    <<"Error", fabricErrorMessage(504, <<"Gateway Timeout">>, <<>>)>> }

ReturnedValues == {"ok", "other"}

BaseUrls ==
  { <<"https://example.com">>,
    <<"https://example.com", "/", "/", "/">>,
    <<"https://example.com", "/", "v1", "/">> }
ApiKeys == {"my-secret-key"}
Capabilities == { NoCapability, <<>>, <<"gpu", ":", "a100">> }

Calls ==
  { [op |-> "discover", capability |-> c] : c \in Capabilities }
  \cup { [op |-> "status"] }
  \cup { [op |-> "enqueueWorkflow", workflow |-> "{\"nodes\":[]}",
          input |-> "{\"prompt\":\"hello\"}"] }

FailureStatuses == {403, 429, 500, 502, 503, 504}
ResponseBodies ==
  { <<>>, <<"Access denied">>, <<"upstream said ", "(", "5", "0", "3", ")">> }

statusText(status) ==
  CASE status = 200 -> <<"OK">>
    [] status = 201 -> <<"Created">>
    [] status = 403 -> <<"Forbidden">>
    [] status = 429 -> <<"Too Many Requests">>
    [] status = 500 -> <<"Internal Server Error">>
    [] status = 502 -> <<"Bad Gateway">>
    [] status = 503 -> <<"Service Unavailable">>
    [] status = 504 -> <<"Gateway Timeout">>

\* What fetch() can settle with
\* the engines the program may run on (Node.js 18+), by the message of
\* their JSON SyntaxError
JsonEngines == {"position", "quoting"}

\* bodies of a success response that are not JSON
UnparsableBodies ==
  { <<"<", "html>">>,
    <<"(", "5", "0", "3", ")", " upst", "ream busy">> }

FetchResults ==
  { [kind |-> "networkError"] }
  \cup { [kind |-> "response", status |-> st, statusText |-> statusText(st),
          body |-> b, json |-> "invalid"] : st \in FailureStatuses, b \in ResponseBodies }
  \cup { [kind |-> "response", status |-> 200, statusText |-> statusText(200),
          body |-> <<"[", "]">>, json |-> "nodes"],
         [kind |-> "response", status |-> 201, statusText |-> statusText(201),
          body |-> <<"{", "}">>, json |-> "result"] }
  \cup { [kind |-> "response", status |-> 200, statusText |-> statusText(200),
          body |-> b, json |-> "invalid", engine |-> e] :
            b \in UnparsableBodies, e \in JsonEngines }

\* ------------------------------------------------------------------- state
VARIABLES
  caller,     \* "withRetry" (an arbitrary operation) or "FabricClient"
  ctorArgs,   \* the arguments new FabricClient(...) was given
  client,     \* the FabricClient instance (url, apiKey, retryOptions)
  call,       \* the FabricClient method called and its arguments
  options,    \* the RetryOptions withRetry was called with
  pc,         \* "loop", "awaitFn", "sleeping", "resolved", "rejected"
  attempt,    \* loop variable of withRetry
  lastError,  \* local of withRetry
  timer,      \* duration of the pending sleep() (1/TimeScale ms), -1 if none
  calls,      \* number of invocations of fn so far
  outcome,    \* how the latest settled invocation of fn ended
  response,   \* what the latest settled fetch() produced
  asked,      \* number of calls of shouldRetry so far
  askedWith,  \* the argument of the latest call of shouldRetry
  delays,     \* un-jittered delay of each suspension, in order
  requests,   \* the fetch() calls issued, in order
  settled     \* how the promise returned to the caller settled

\* state of one runWorkflow(pythonPath, filePath, input, options) call
VARIABLES
  runOptions,     \* options: whether verbose is set and onProgress is given
  stdout,         \* let stdout: everything the child wrote to stdout so far
  stderr,         \* let stderr: everything the child wrote to stderr so far
  completedNodes, \* let completedNodes
  totalNodes,     \* let totalNodes
  parsed,         \* lines of the latest stderr chunk with parseProgressLine's result
  delivered,      \* the events options.onProgress was called with, in order
  echoed,         \* what process.stderr.write passed through (verbose)
  terminal,       \* the 'close' and 'error' events the child emitted, in order
  dataEvents,     \* number of 'data' events so far
  promise         \* the promise runWorkflow returned

retryVars ==
  <<caller, ctorArgs, client, call, options, pc, attempt, lastError, timer, calls,
    outcome, response, asked, askedWith, delays, requests, settled>>

runVars ==
  <<runOptions, stdout, stderr, completedNodes, totalNodes, parsed, delivered,
    echoed, terminal, dataEvents, promise>>

\* state of one findPython() or ensurePython() call
VARIABLES
  config,         \* what loadConfig() returned: python_path and venv_dir
  machine,        \* the host: platform, files, search path, interpreters, pip
  frame,          \* the call in progress: position, loop index, locals
  log,            \* commands executed and messages printed, in order
  returned        \* how the call ended: a returned value or process.exit

pythonVars == <<config, machine, frame, log, returned>>

\* state of one classifyPythonError(stderr) call
VARIABLES
  errorText,      \* the argument stderr
  classified      \* the ClassifiedError returned

classifyVars == <<errorText, classified>>

\* state of two runWorkflow calls in flight at the same time
VARIABLES
  runs,           \* for each call, its closure: buffers, counters, promise
  history         \* for each call, the events its child emitted, in order

pairVars == <<runs, history>>

\* ---- one invocation of a command of the CLI (commands/workflow.ts, fabric.ts)
VARIABLES
  command,        \* the command, its arguments and options
  store,          \* the configuration file, as loadConfig() would return it
  step,           \* where the action of the command is suspended
  trail           \* what the command did so far, in order

cliVars == <<command, store, step, trail>>

outsideRetry == <<runVars, pythonVars, classifyVars, pairVars, cliVars>>
outsideRun == <<retryVars, pythonVars, classifyVars, pairVars, cliVars>>
outsidePython == <<retryVars, runVars, classifyVars, pairVars, cliVars>>
outsideClassify == <<retryVars, runVars, pythonVars, pairVars, cliVars>>
outsidePair == <<retryVars, runVars, pythonVars, classifyVars, cliVars>>

outsideCli == <<retryVars, runVars, pythonVars, classifyVars, pairVars>>

vars == <<retryVars, runVars, pythonVars, classifyVars, pairVars, cliVars>>

Pending == [state |-> "pending"]
NoOutcome == [kind |-> "none"]
NoResponse == [kind |-> "none"]
NoClient == [url |-> <<>>, apiKey |-> "", retryOptions |-> EmptyOptions]
NoCall == [op |-> "fn"]
NoArgs == [url |-> <<>>, apiKey |-> "", retryOptions |-> EmptyOptions]

InitRun ==
  /\ pc = "loop"
  /\ attempt = 0
  /\ lastError = Undefined
  /\ timer = -1
  /\ calls = 0
  /\ outcome = NoOutcome
  /\ response = NoResponse
  /\ asked = 0
  /\ askedWith = Undefined
  /\ delays = <<>>
  /\ requests = <<>>
  /\ settled = Pending

\* withRetry(fn, options) called directly with an arbitrary operation
InitWithRetry ==
  /\ caller = "withRetry"
  /\ ctorArgs = NoArgs
  /\ client = NoClient
  /\ call = NoCall
  /\ options \in RetryOptions
  /\ InitRun

\* new FabricClient(url, apiKey, retryOptions) followed by one method call,
\* which enters withRetry(..., this.retryOptions)
InitFabric ==
  /\ caller = "FabricClient"
  /\ ctorArgs \in [url : BaseUrls, apiKey : ApiKeys, retryOptions : ClientRetryOptions]
  /\ client = FabricClient(ctorArgs.url, ctorArgs.apiKey, ctorArgs.retryOptions)
  /\ call \in Calls
  /\ options = client.retryOptions
  /\ InitRun

\* no runWorkflow call is in progress
RunIdle ==
  /\ runOptions = [verbose |-> FALSE, onProgress |-> FALSE]
  /\ stdout = <<>>
  /\ stderr = <<>>
  /\ completedNodes = 0
  /\ totalNodes = 0
  /\ parsed = <<>>
  /\ delivered = <<>>
  /\ echoed = <<>>
  /\ terminal = <<>>
  /\ dataEvents = 0
  /\ promise = [state |-> "none"]

\* no findPython or ensurePython call is in progress
PythonIdle ==
  /\ config = [python_path |-> <<>>, venv_dir |-> <<>>]
  /\ machine = [platform |-> "none"]
  /\ frame = [pc |-> "idle"]
  /\ log = <<>>
  /\ returned = [kind |-> "none"]

\* no classifyPythonError call is in progress
ClassifyIdle ==
  /\ errorText = <<>>
  /\ classified = [category |-> "none"]

\* no pair of runWorkflow calls is in progress
PairIdle ==
  /\ runs = <<>>
  /\ history = <<>>

\* no command is running
CliIdle ==
  /\ command = [name |-> "none"]
  /\ store = <<>>
  /\ step = "idle"
  /\ trail = <<>>

Init ==
  /\ InitWithRetry \/ InitFabric
  /\ RunIdle /\ PythonIdle /\ ClassifyIdle /\ PairIdle /\ CliIdle

\* --------------------------------------------------------------- withRetry
\* for (...; attempt <= maxRetries; ...) { try { return await fn(); }
Invoke ==
  /\ pc = "loop"
  /\ attempt <= maxRetriesOf(options)
  /\ calls' = calls + 1
  /\ requests' = IF caller = "FabricClient"
                 THEN Append(requests, fetchRequest(client, call))
                 ELSE requests
  /\ pc' = "awaitFn"
  /\ UNCHANGED <<caller, ctorArgs, client, call, options, attempt, lastError, timer,
                 outcome, response, asked, askedWith, delays, settled>>
  /\ UNCHANGED outsideRetry

Return_keepLooping(value) ==
  /\ pc' = "loop"
  /\ attempt' = attempt + 1
  /\ settled' = settled
  /\ UNCHANGED <<lastError, timer, asked, askedWith, delays>>
\* try { return await fn(); }
Return(value) ==
  /\ pc' = "resolved"
  /\ settled' = [state |-> "resolved", value |-> value]
  /\ UNCHANGED <<attempt, lastError, timer, asked, askedWith, delays>>

\* catch (error) { lastError = error; if (...) throw error; await sleep(...) }
\* (|| short-circuits: shouldRetry is not called once retries are exhausted)
Catch(error) ==
  /\ lastError' = error
  /\ IF retriesExhausted(attempt, options)
     THEN UNCHANGED <<asked, askedWith>>
     ELSE asked' = asked + 1 /\ askedWith' = error
  /\ IF mustPropagate(attempt, options, error)
     THEN /\ pc' = "rejected"
          /\ settled' = [state |-> "rejected", error |-> error]
          /\ UNCHANGED <<timer, delays>>
     ELSE \E r \in 0..(JitterSteps - 1) :
            /\ delays' = Append(delays, backoffDelay(options, attempt))
            /\ timer' = sleepMs(backoffDelay(options, attempt), r)
            /\ pc' = "sleeping"
            /\ settled' = settled
  /\ UNCHANGED attempt

Settle(result) ==
  /\ outcome' = result
  /\ IF result.kind = "return" THEN Return(result.value) ELSE Catch(result.error)

\* an arbitrary operation resolves
FnResolves ==
  /\ pc = "awaitFn"
  /\ caller = "withRetry"
  /\ \E v \in ReturnedValues :
       Settle([kind |-> "return", value |-> [id |-> calls, val |-> v]])
  /\ UNCHANGED <<caller, ctorArgs, client, call, options, calls, requests, response>>
  /\ UNCHANGED outsideRetry

\* an arbitrary operation rejects
FnRejects ==
  /\ pc = "awaitFn"
  /\ caller = "withRetry"
  /\ \E t \in ThrownValues :
       Settle([kind |-> "throw",
               error |-> [id |-> calls, type |-> t[1], msg |-> t[2]]])
  /\ UNCHANGED <<caller, ctorArgs, client, call, options, calls, requests, response>>
  /\ UNCHANGED outsideRetry

\* FabricClient.request: fetch() settles and the rest of the async function runs
FetchSettles ==
  /\ pc = "awaitFn"
  /\ caller = "FabricClient"
  /\ \E res \in FetchResults :
       /\ response' = res
       /\ Settle(requestOutcome(calls, res))
  /\ UNCHANGED <<caller, ctorArgs, client, call, options, calls, requests>>
  /\ UNCHANGED outsideRetry

TimerFires_sameAttempt ==
  /\ pc = "sleeping"
  /\ timer' = -1
  /\ attempt' = attempt
  /\ pc' = "loop"
  /\ UNCHANGED <<caller, ctorArgs, client, call, options, lastError, calls, outcome,
                 response, asked, askedWith, delays, requests, settled>>
  /\ UNCHANGED outsideRetry
\* await sleep(delay + jitter); then attempt++
TimerFires ==
  /\ pc = "sleeping"
  /\ timer' = -1
  /\ attempt' = attempt + 1
  /\ pc' = "loop"
  /\ UNCHANGED <<caller, ctorArgs, client, call, options, lastError, calls, outcome,
                 response, asked, askedWith, delays, requests, settled>>
  /\ UNCHANGED outsideRetry

\* the loop condition fails: throw lastError
LoopExit ==
  /\ pc = "loop"
  /\ ~(attempt <= maxRetriesOf(options))
  /\ pc' = "rejected"
  /\ settled' = [state |-> "rejected", error |-> lastError]
  /\ UNCHANGED <<caller, ctorArgs, client, call, options, attempt, lastError, timer,
                 calls, outcome, response, asked, askedWith, delays, requests>>
  /\ UNCHANGED outsideRetry

Next ==
  \/ Invoke
  \/ FnResolves
  \/ FnRejects
  \/ FetchSettles
  \/ TimerFires
  \/ LoopExit

Spec == Init /\ [][Next]_vars

\* withRetry with an environment that keeps its promises: the synchronous
\* steps of the loop run, every invocation of the operation settles and
\* every backoff timer fires
Fairness ==
  /\ WF_vars(Invoke)
  /\ WF_vars(LoopExit)
  /\ WF_vars(FnResolves \/ FnRejects)
  /\ WF_vars(FetchSettles)
  /\ WF_vars(TimerFires)

SpecFair == Spec /\ Fairness

\* ============================================================= runWorkflow
\* Text written by the child is a sequence of tokens: "\n", " ", the
\* characters the progress patterns inspect ("[", "]", "(", ")" and digits)
\* and words.  A JSON document is cut into tokens at structural positions,
\* where JSON allows whitespace.

MaxDataEvents == 3     \* 'data' events of stdout and stderr in one run

IsSpace(t) == t \in {" ", "\n"}

\* String.prototype.trim()
RECURSIVE trimStart(_)
trimStart(text) ==
  IF text # <<>> /\ IsSpace(Head(text)) THEN trimStart(Tail(text)) ELSE text

RECURSIVE trimEnd(_)
trimEnd(text) ==
  IF text # <<>> /\ IsSpace(text[Len(text)])
  THEN trimEnd(SubSeq(text, 1, Len(text) - 1))
  ELSE text

trim(text) == trimEnd(trimStart(text))

\* text.split("\n")
RECURSIVE split(_)
split(text) ==
  IF \A i \in 1..Len(text) : text[i] # "\n"
  THEN <<text>>
  ELSE LET i == CHOOSE k \in 1..Len(text) :
                  text[k] = "\n" /\ \A m \in 1..(k - 1) : text[m] # "\n"
       IN  <<SubSeq(text, 1, i - 1)>> \o split(SubSeq(text, i + 1, Len(text)))

\* ---- JSON.parse
JsonSuccessOpen == "{\"success\":true,\"output\":{\"answer\":\"42\"}"
JsonClose == "}"
JsonFailure == "{\"success\":false,\"error\":\"node failed\"}"
JsonOther == "{\"result\":42}"

RECURSIVE withoutSpace(_)
withoutSpace(text) ==
  IF text = <<>> THEN <<>>
  ELSE IF IsSpace(Head(text)) THEN withoutSpace(Tail(text))
  ELSE <<Head(text)>> \o withoutSpace(Tail(text))

\* the documents the child may produce, and the value each one denotes
JsonDocuments ==
  { <<JsonSuccessOpen, JsonClose>>, <<JsonFailure>>, <<JsonOther>> }

JsonValue(doc) ==
  IF doc = <<JsonSuccessOpen, JsonClose>>
  THEN [success |-> TRUE, output |-> [answer |-> "42"]]
  ELSE IF doc = <<JsonFailure>>
  THEN [success |-> FALSE, error |-> <<"node failed">>]
  ELSE [result |-> 42]

\* JSON.parse(text): whitespace around and between tokens is skipped; what
\* is left must be exactly one document, otherwise a SyntaxError is thrown
JSONparse(text) ==
  IF withoutSpace(text) \in JsonDocuments
  THEN [ok |-> TRUE, value |-> JsonValue(withoutSpace(text))]
  ELSE [ok |-> FALSE]

\* ---- parseProgressLine
\* the /i flag: a keyword in any letter case
lower(t) ==
  CASE t \in {"running", "RUNNING", "Running"} -> "running"
    [] t \in {"done", "DONE", "Done"} -> "done"
    [] t \in {"error:", "ERROR:", "Error:"} -> "error:"
    [] t \in {"Workflow started", "workflow started", "WORKFLOW STARTED"}
         -> "workflow started"
    [] t \in {"nodes", "NODES", "Nodes"} -> "nodes"
    [] t \in {"node", "NODE", "Node"} -> "node"
    [] OTHER -> t

IsDigit(t) == t \in {"0", "1", "2", "3", "4", "5", "6", "7", "8", "9"}

DigitValue(t) == CHOOSE d \in 0..9 : Digit(d) = t

\* parseInt(digits, 10)
RECURSIVE parseInt(_)
parseInt(digits) ==
  IF digits = <<>> THEN 0
  ELSE 10 * parseInt(SubSeq(digits, 1, Len(digits) - 1))
         + DigitValue(digits[Len(digits)])

\* \s* from position i: the first position that holds no white space
RECURSIVE skipSpace(_, _)
skipSpace(line, i) ==
  IF i <= Len(line) /\ line[i] = " " THEN skipSpace(line, i + 1) ELSE i

\* (\d+) from position i: the first position that holds no digit
RECURSIVE skipDigits(_, _)
skipDigits(line, i) ==
  IF i <= Len(line) /\ IsDigit(line[i]) THEN skipDigits(line, i + 1) ELSE i

NoMatch == [found |-> FALSE]

\* /Workflow started\s*\((\d+)\s*nodes?\)/i tried at position i
startedAt(line, i) ==
  LET p == skipSpace(line, i + 1)
      d == skipDigits(line, p + 1)
      n == skipSpace(line, d)
  IN  IF /\ lower(line[i]) = "workflow started"
         /\ p <= Len(line) /\ line[p] = "("
         /\ d > p + 1
         /\ n + 1 <= Len(line)
         /\ lower(line[n]) \in {"nodes", "node"}
         /\ line[n + 1] = ")"
      THEN [found |-> TRUE, count |-> SubSeq(line, p + 1, d - 1)]
      ELSE NoMatch

\* /\[([^\]]+)\]\s*<keyword>/i tried at position i
bracketedAt(line, i, keyword) ==
  IF line[i] # "[" \/ \A j \in (i + 1)..Len(line) : line[j] # "]"
  THEN NoMatch
  ELSE LET j == CHOOSE k \in (i + 1)..Len(line) :
                  line[k] = "]" /\ \A m \in (i + 1)..(k - 1) : line[m] # "]"
           w == skipSpace(line, j + 1)
       IN  IF j > i + 1 /\ w <= Len(line) /\ lower(line[w]) = keyword
           THEN [found |-> TRUE, name |-> SubSeq(line, i + 1, j - 1), end |-> w]
           ELSE NoMatch

\* String.prototype.match without /g: the leftmost position that matches
RECURSIVE startedFrom(_, _)
startedFrom(line, i) ==
  IF i > Len(line) THEN NoMatch
  ELSE IF startedAt(line, i).found THEN startedAt(line, i)
  ELSE startedFrom(line, i + 1)

RECURSIVE bracketedFrom(_, _, _)
bracketedFrom(line, i, keyword) ==
  IF i > Len(line) THEN NoMatch
  ELSE IF bracketedAt(line, i, keyword).found THEN bracketedAt(line, i, keyword)
  ELSE bracketedFrom(line, i + 1, keyword)

NoEvent == [type |-> "null"]

parseProgressLine(line) ==
  LET startMatch == startedFrom(line, 1)
      runningMatch == bracketedFrom(line, 1, "running")
      doneMatch == bracketedFrom(line, 1, "done")
      errorMatch == bracketedFrom(line, 1, "error:")
  IN  IF startMatch.found
      THEN [type |-> "started", totalNodes |-> parseInt(startMatch.count)]
      ELSE IF runningMatch.found
      THEN [type |-> "node_running", nodeName |-> runningMatch.name]
      ELSE IF doneMatch.found
      THEN [type |-> "node_done", nodeName |-> doneMatch.name]
      ELSE IF errorMatch.found
      THEN [type |-> "node_error", nodeName |-> errorMatch.name,
            message |-> SubSeq(line, skipSpace(line, errorMatch.end + 1), Len(line))]
      ELSE NoEvent

\* ---- the 'close' handler
NullCode == [isNull |-> TRUE]
ExitCode(n) == [isNull |-> FALSE, n |-> n]

\* `${code}`
codeText(code) ==
  IF code.isNull THEN <<"null">>
  ELSE IF code.n < 0 THEN <<"-">> \o Decimal(0 - code.n)
  ELSE Decimal(code.n)

exitMessage(code) == <<"Process exited with code ">> \o codeText(code)

catchResult_stderrFirst(out, err, code) ==
  [success |-> FALSE,
   error |-> IF err # <<>> THEN err ELSE IF out # <<>> THEN out ELSE exitMessage(code)]
\* catch { resolve({ success: false, error: stdout || stderr || `...` }) }
catchResult(out, err, code) ==
  [success |-> FALSE,
   error |-> IF out # <<>> THEN out ELSE IF err # <<>> THEN err ELSE exitMessage(code)]

stderrResult_untrimmed(err) ==
  IF JSONparse(err).ok
  THEN JSONparse(err).value
  ELSE [success |-> FALSE, error |-> err]
\* else if (stderr.trim()) { try { JSON.parse(stderr) } catch { ... } }
stderrResult(err) ==
  IF JSONparse(err).ok
  THEN JSONparse(err).value
  ELSE [success |-> FALSE, error |-> trim(err)]

silentResult_noCode(code) ==
  [success |-> FALSE, error |-> <<"Process exited with code ">>]
\* else { resolve({ success: false, error: `Process exited with code ${code}` }) }
silentResult(code) == [success |-> FALSE, error |-> exitMessage(code)]

closeResult_progressDecides(out, err, code) ==
  IF completedNodes < totalNodes
  THEN [success |-> FALSE, error |-> <<"Workflow did not complete">>]
  ELSE IF trim(out) # <<>>
  THEN IF JSONparse(out).ok
       THEN JSONparse(out).value
       ELSE catchResult(out, err, code)
  ELSE IF trim(err) # <<>>
  THEN stderrResult(err)
  ELSE silentResult(code)
closeResult_exitCodeFirst(out, err, code) ==
  IF code # ExitCode(0)
  THEN silentResult(code)
  ELSE IF trim(out) # <<>>
  THEN IF JSONparse(out).ok
       THEN JSONparse(out).value
       ELSE catchResult(out, err, code)
  ELSE IF trim(err) # <<>>
  THEN stderrResult(err)
  ELSE silentResult(code)
\* the value the 'close' handler passes to resolve
closeResult(out, err, code) ==
  IF trim(out) # <<>>
  THEN IF JSONparse(out).ok
       THEN JSONparse(out).value
       ELSE catchResult(out, err, code)
  ELSE IF trim(err) # <<>>
  THEN stderrResult(err)
  ELSE silentResult(code)

errorSettlement_resolves(err) ==
  [state |-> "resolved", value |-> [success |-> FALSE, error |-> <<err.code>>]]
\* the 'error' handler: reject(err)
errorSettlement(err) == [state |-> "rejected", error |-> err]

settle_lastCallWins(current, settlement) == settlement
\* resolve and reject of the promise: only the first call has an effect
settle(current, settlement) ==
  IF current.state = "pending" THEN settlement ELSE current

appendChunk_overwrite(buffer, chunk) == chunk
\* stdout += data.toString()
appendChunk(buffer, chunk) == buffer \o chunk

\* ---- the stderr 'data' handler
runningIndex_completed(completed) == completed
\* event.currentNode of a node_running event
runningIndex(completed) == completed + 1

\* one line of a chunk; st holds completedNodes, totalNodes and what was
\* parsed and delivered so far
progressLine(st, line, observed) ==
  LET trimmed == trim(line)
      event == parseProgressLine(trimmed)
      total == IF event.type = "started" /\ event.totalNodes # 0
               THEN event.totalNodes
               ELSE st.totalNodes
      completed == IF event.type = "node_done"
                   THEN st.completedNodes + 1
                   ELSE st.completedNodes
      annotated ==
        IF event.type = "node_done"
        THEN [type |-> "node_done", nodeName |-> event.nodeName,
              currentNode |-> completed, totalNodes |-> total]
        ELSE IF event.type = "node_running"
        THEN [type |-> "node_running", nodeName |-> event.nodeName,
              currentNode |-> runningIndex(completed), totalNodes |-> total]
        ELSE event
  IN  IF trimmed = <<>> THEN st
      ELSE IF event = NoEvent
      THEN [st EXCEPT !.parsed = Append(@, [line |-> trimmed, event |-> event])]
      ELSE [completedNodes |-> completed,
            totalNodes |-> total,
            parsed |-> Append(st.parsed, [line |-> trimmed, event |-> event]),
            delivered |-> IF observed
                          THEN Append(st.delivered, annotated)
                          ELSE st.delivered]

\* for (const line of lines) { ... }
RECURSIVE progressLines(_, _, _)
progressLines(st, lines, observed) ==
  IF lines = <<>> THEN st
  ELSE progressLines(progressLine(st, Head(lines), observed), Tail(lines), observed)

\* ---- what the child may do
StdoutChunks ==
  { <<JsonSuccessOpen>>,
    <<JsonClose, "\n">>,
    <<JsonFailure>>,
    <<JsonOther>>,
    <<"\n">> }

StderrChunks ==
  { <<"Workflow started", " ", "(", "2", " ", "nodes", ")", "\n">>,
    <<"[", "LLM", "]", " ", "running", "\n",
      " ", "[", "LLM", "]", " ", "DONE", "\n">>,
    <<"Workflow started", " ", "(", "0", " ", "nodes", ")", "\n">>,
    <<"[", "Fetch", "]", " ", "error:">>,
    <<"[", "Fetch", "]", " ", "error:", " ",
      "[", "LLM", "]", " ", "running", " ", "late", "\n">>,
    <<" ", "\n">>,
    <<JsonFailure, "\n">> }

ExitCodes == { ExitCode(0), ExitCode(1), NullCode }

ProcessErrors == { [code |-> "ENOENT"] }

RunOptions == [verbose : BOOLEAN, onProgress : BOOLEAN]

Closed == \E i \in 1..Len(terminal) : terminal[i].kind = "close"
Errored == \E i \in 1..Len(terminal) : terminal[i].kind = "error"

\* no withRetry call is in progress
RetryIdle ==
  /\ caller = "none"
  /\ ctorArgs = NoArgs
  /\ client = NoClient
  /\ call = NoCall
  /\ options = EmptyOptions
  /\ pc = "idle"
  /\ attempt = 0
  /\ lastError = Undefined
  /\ timer = -1
  /\ calls = 0
  /\ outcome = NoOutcome
  /\ response = NoResponse
  /\ asked = 0
  /\ askedWith = Undefined
  /\ delays = <<>>
  /\ requests = <<>>
  /\ settled = Pending

\* runWorkflow has spawned the child and returned its promise
InitRunWorkflow ==
  /\ RetryIdle /\ PythonIdle /\ ClassifyIdle /\ PairIdle /\ CliIdle
  /\ runOptions \in RunOptions
  /\ stdout = <<>>
  /\ stderr = <<>>
  /\ completedNodes = 0
  /\ totalNodes = 0
  /\ parsed = <<>>
  /\ delivered = <<>>
  /\ echoed = <<>>
  /\ terminal = <<>>
  /\ dataEvents = 0
  /\ promise = Pending

\* proc.stdout.on("data", ...)
StdoutData ==
  /\ promise.state # "none"
  /\ ~Closed
  /\ dataEvents < MaxDataEvents
  /\ \E chunk \in StdoutChunks : stdout' = appendChunk(stdout, chunk)
  /\ dataEvents' = dataEvents + 1
  /\ UNCHANGED <<runOptions, stderr, completedNodes, totalNodes, parsed, delivered,
                 echoed, terminal, promise>>
  /\ UNCHANGED outsideRun

\* proc.stderr.on("data", ...)
StderrData ==
  /\ promise.state # "none"
  /\ ~Closed
  /\ dataEvents < MaxDataEvents
  /\ \E chunk \in StderrChunks :
       LET st == progressLines([completedNodes |-> completedNodes,
                                totalNodes |-> totalNodes,
                                parsed |-> <<>>,
                                delivered |-> delivered],
                               split(chunk), runOptions.onProgress)
       IN  /\ stderr' = appendChunk(stderr, chunk)
           /\ completedNodes' = st.completedNodes
           /\ totalNodes' = st.totalNodes
           /\ parsed' = st.parsed
           /\ delivered' = st.delivered
           /\ echoed' = IF runOptions.verbose THEN echoed \o chunk ELSE echoed
  /\ dataEvents' = dataEvents + 1
  /\ UNCHANGED <<runOptions, stdout, terminal, promise>>
  /\ UNCHANGED outsideRun

\* proc.on("close", (code) => ...)
Close ==
  /\ promise.state # "none"
  /\ ~Closed
  /\ \E code \in ExitCodes :
       /\ terminal' = Append(terminal, [kind |-> "close", code |-> code])
       /\ promise' = settle(promise, [state |-> "resolved",
                                      value |-> closeResult(stdout, stderr, code)])
  /\ UNCHANGED <<runOptions, stdout, stderr, completedNodes, totalNodes, parsed,
                 delivered, echoed, dataEvents>>
  /\ UNCHANGED outsideRun

\* proc.on("error", (err) => ...)
ProcError ==
  /\ promise.state # "none"
  /\ ~Errored
  /\ \E err \in ProcessErrors :
       /\ terminal' = Append(terminal, [kind |-> "error", err |-> err])
       /\ promise' = settle(promise, errorSettlement(err))
  /\ UNCHANGED <<runOptions, stdout, stderr, completedNodes, totalNodes, parsed,
                 delivered, echoed, dataEvents>>
  /\ UNCHANGED outsideRun

NextRunWorkflow ==
  \/ StdoutData
  \/ StderrData
  \/ Close
  \/ ProcError

SpecRunWorkflow == InitRunWorkflow /\ [][NextRunWorkflow]_vars

\* ================================================== findPython, ensurePython
\* Paths and command output are token sequences, as above.  null is <<>>:
\* neither which() nor the configuration produces an empty path that is used.
Null == <<>>

Candidates == <<"python3", "python">>

\* execSync throwing: the command could not be run or exited non-zero
ExecFails == <<"\\throws">>

NoVersion == [isNull |-> TRUE]

\* /Python (\d+)\.(\d+)\.(\d+)/ tried at position i
versionAt(text, i) ==
  LET a == skipDigits(text, i + 1)
      b == skipDigits(text, a + 1)
      c == skipDigits(text, b + 1)
  IN  IF /\ text[i] = "Python "
         /\ a > i + 1 /\ a <= Len(text) /\ text[a] = "."
         /\ b > a + 1 /\ b <= Len(text) /\ text[b] = "."
         /\ c > b + 1
      THEN [found |-> TRUE,
            major |-> SubSeq(text, i + 1, a - 1),
            minor |-> SubSeq(text, a + 1, b - 1),
            patch |-> SubSeq(text, b + 1, c - 1)]
      ELSE NoMatch

RECURSIVE versionFrom(_, _)
versionFrom(text, i) ==
  IF i > Len(text) THEN NoMatch
  ELSE IF versionAt(text, i).found THEN versionAt(text, i)
  ELSE versionFrom(text, i + 1)

\* getPythonVersion(pythonPath), given what `${pythonPath} --version` does
getPythonVersion(m, pythonPath) ==
  LET output == m.versions[pythonPath]
      match == versionFrom(trim(output), 1)
  IN  IF output = ExecFails THEN NoVersion
      ELSE IF match.found
      THEN [isNull |-> FALSE,
            major |-> parseInt(match.major),
            minor |-> parseInt(match.minor),
            patch |-> parseInt(match.patch)]
      ELSE NoVersion

versionOk_newerOnly(version) ==
  ~version.isNull /\ version.major = 3 /\ version.minor > 12
\* version && version.major === 3 && version.minor >= 12
versionOk(version) ==
  ~version.isNull /\ version.major = 3 /\ version.minor >= 12

\* getVenvPythonPath(venvDir): join(venvDir, "bin", "python") or, on win32,
\* join(venvDir, "Scripts", "python.exe")
getVenvPythonPath(m, venvDir) ==
  IF m.platform = "win32"
  THEN venvDir \o <<"\\", "Scripts", "\\", "python.exe">>
  ELSE venvDir \o <<"/", "bin", "/", "python">>

existsSync(m, path) == path \in m.files

\* isVenvValid(venvDir)
isVenvValid(m, venvDir) == existsSync(m, getVenvPythonPath(m, venvDir))

\* isAceteamNodesInstalled(pythonPath)
isAceteamNodesInstalled(m, pythonPath) == pythonPath \in m.importable

\* the log entry of an isAceteamNodesInstalled call
Probe(m, pythonPath) ==
  [op |-> "import", arg |-> pythonPath, ok |-> isAceteamNodesInstalled(m, pythonPath)]

Printed(op, message) == [op |-> op, arg |-> message, ok |-> TRUE]

Exit(code) == [op |-> "exit", arg |-> Decimal(code), ok |-> TRUE]

NotFoundMessage ==
  <<"Python 3.12+ not found. Please install Python and run: ace init">>
InstallFailedMessage ==
  <<"Failed to install aceteam-nodes. Try: pip install aceteam-nodes">>

\* ---- the hosts and configurations considered
Python3Path == <<"/usr/bin/python3">>
PythonPath == <<"/usr/local/bin/python">>
ConfiguredPath == <<"/opt/ace/python">>
VenvDir == <<"/home/u/.ace/venv">>

VersionOutputs ==
  { <<"Python ", "3", ".", "1", "2", ".", "4", "\n">>,
    <<"Python ", "3", ".", "9", ".", "1", "8", "\n">>,
    <<"Python ", "4", ".", "1", "2", ".", "0", "\n">>,
    <<"Python ", "3", ".", "1", "3", "\n">>,
    ExecFails }

\* what the search path holds for a candidate name: nothing, or an
\* executable and what its --version prints
CandidateStates == {[onPath |-> FALSE]} \cup [onPath : {TRUE}, version : VersionOutputs]

\* a configured runtime: not configured, configured but gone, present
\* without the dependency, present with it
RuntimeStates == {"unset", "missing", "nodep", "ready"}

\* what which(name) resolves to when the name is on the search path;
\* python3At is the file the search path holds under the name python3
ResolvedPath(name, python3At) == IF name = "python3" THEN python3At ELSE PythonPath

Machine(platform, configured, venv, onPath, withDep, pipWorks, python3At) ==
  LET m == [platform |-> platform]
      venvPython == getVenvPythonPath(m, VenvDir)
      resolved == { ResolvedPath(n, python3At) :
                      n \in { n \in {"python3", "python"} : onPath[n].onPath } }
  IN  [platform |-> platform,
       files |-> (IF configured \in {"nodep", "ready"} THEN {ConfiguredPath} ELSE {})
                   \cup (IF venv \in {"nodep", "ready"} THEN {venvPython} ELSE {})
                   \cup resolved,
       importable |-> (IF configured = "ready" THEN {ConfiguredPath} ELSE {})
                        \cup (IF venv = "ready" THEN {venvPython} ELSE {})
                        \cup (withDep \cap resolved),
       which |-> [n \in {"python3", "python"} |->
                    IF onPath[n].onPath THEN ResolvedPath(n, python3At) ELSE Null],
       versions |-> [p \in {python3At, PythonPath} |->
                       IF p = python3At /\ onPath["python3"].onPath
                       THEN onPath["python3"].version
                       ELSE IF p = PythonPath /\ onPath["python"].onPath
                       THEN onPath["python"].version
                       ELSE ExecFails],
       installOk |-> pipWorks]

Config(configured, venv) ==
  [python_path |-> IF configured = "unset" THEN Null ELSE ConfiguredPath,
   venv_dir |-> IF venv = "unset" THEN Null ELSE VenvDir]

\* findPython() called on its own
InitFindPython ==
  /\ RetryIdle /\ RunIdle /\ ClassifyIdle /\ PairIdle /\ CliIdle
  /\ config = Config("unset", "unset")
  /\ \E onPath \in [{"python3", "python"} -> CandidateStates] :
       machine = Machine("linux", "unset", "unset", onPath, {}, FALSE, Python3Path)
  /\ frame = [caller |-> "findPython", pc |-> "which", i |-> 1, found |-> Null]
  /\ log = <<>>
  /\ returned = [kind |-> "none"]

\* ensurePython() called by a command; the configured python_path may be
\* the very file the search path holds under the name python3
InitEnsurePython ==
  /\ RetryIdle /\ RunIdle /\ ClassifyIdle /\ PairIdle /\ CliIdle
  /\ \E platform \in {"linux", "win32"}, configured \in RuntimeStates,
        venv \in RuntimeStates, pipWorks \in BOOLEAN,
        onPath \in [{"python3", "python"} -> CandidateStates],
        withDep \in SUBSET {Python3Path, PythonPath},
        python3At \in {Python3Path, ConfiguredPath} :
       /\ python3At = ConfiguredPath
            => configured \in {"nodep", "ready"} /\ onPath["python3"].onPath
       /\ config = Config(configured, venv)
       /\ machine = Machine(platform, configured, venv, onPath, withDep, pipWorks,
                            python3At)
  /\ frame = [caller |-> "ensurePython", pc |-> "ensure", i |-> 1, found |-> Null]
  /\ log = <<>>
  /\ returned = [kind |-> "none"]

InitPython == InitFindPython \/ InitEnsurePython

configuredRuntime_venvFirst(c, m) ==
  IF c.venv_dir # Null /\ isVenvValid(m, c.venv_dir)
       /\ isAceteamNodesInstalled(m, getVenvPythonPath(m, c.venv_dir))
  THEN getVenvPythonPath(m, c.venv_dir)
  ELSE IF c.python_path # Null /\ existsSync(m, c.python_path)
       /\ isAceteamNodesInstalled(m, c.python_path)
  THEN c.python_path
  ELSE Null
\* the runtime the configuration yields: config.python_path, else the
\* python of config.venv_dir, else none
configuredRuntime(c, m) ==
  IF c.python_path # Null /\ existsSync(m, c.python_path)
       /\ isAceteamNodesInstalled(m, c.python_path)
  THEN c.python_path
  ELSE IF c.venv_dir # Null /\ isVenvValid(m, c.venv_dir)
       /\ isAceteamNodesInstalled(m, getVenvPythonPath(m, c.venv_dir))
  THEN getVenvPythonPath(m, c.venv_dir)
  ELSE Null

\* the isAceteamNodesInstalled calls made on the way
configuredProbes(c, m) ==
  LET first == IF c.python_path # Null /\ existsSync(m, c.python_path)
               THEN <<Probe(m, c.python_path)>>
               ELSE <<>>
      second == IF c.venv_dir # Null /\ isVenvValid(m, c.venv_dir)
                THEN <<Probe(m, getVenvPythonPath(m, c.venv_dir))>>
                ELSE <<>>
  IN  IF first # <<>> /\ first[1].ok THEN first ELSE first \o second

EnsureEnter_withoutDependencyCheck ==
  /\ frame.pc = "ensure"
  /\ log' = log \o configuredProbes(config, machine)
  /\ IF config.python_path # Null /\ existsSync(machine, config.python_path)
     THEN /\ returned' = [kind |-> "return", value |-> config.python_path]
          /\ frame' = [frame EXCEPT !.pc = "done"]
     ELSE IF configuredRuntime(config, machine) # Null
     THEN /\ returned' = [kind |-> "return", value |-> configuredRuntime(config, machine)]
          /\ frame' = [frame EXCEPT !.pc = "done"]
     ELSE /\ returned' = returned
          /\ frame' = [frame EXCEPT !.pc = "which"]
  /\ UNCHANGED <<config, machine>>
  /\ UNCHANGED outsidePython
\* ensurePython up to `await findPython()`
EnsureEnter ==
  /\ frame.pc = "ensure"
  /\ log' = log \o configuredProbes(config, machine)
  /\ IF configuredRuntime(config, machine) # Null
     THEN /\ returned' = [kind |-> "return", value |-> configuredRuntime(config, machine)]
          /\ frame' = [frame EXCEPT !.pc = "done"]
     ELSE /\ returned' = returned
          /\ frame' = [frame EXCEPT !.pc = "which"]
  /\ UNCHANGED <<config, machine>>
  /\ UNCHANGED outsidePython

\* one iteration of the loop of findPython: await which(name), then
\* getPythonVersion(resolved); the loop ends with the first accepted
\* candidate or after the last one
TryCandidate ==
  /\ frame.pc = "which"
  /\ LET name == Candidates[frame.i]
         resolved == machine.which[name]
         version == getPythonVersion(machine, resolved)
         accepted == resolved # Null /\ versionOk(version)
         result == IF accepted THEN resolved ELSE Null
     IN  /\ log' = log \o <<[op |-> "which", arg |-> <<name>>, ok |-> resolved # Null]>>
                       \o (IF resolved = Null THEN <<>>
                           ELSE <<[op |-> "version", arg |-> resolved,
                                   ok |-> ~version.isNull]>>)
         /\ IF accepted \/ frame.i = Len(Candidates)
            THEN IF frame.caller = "findPython"
                 THEN /\ frame' = [frame EXCEPT !.pc = "done", !.found = result]
                      /\ returned' = [kind |-> "return", value |-> result]
                 ELSE /\ frame' = [frame EXCEPT !.pc = "resume", !.found = result]
                      /\ returned' = returned
            ELSE /\ frame' = [frame EXCEPT !.i = @ + 1]
                 /\ returned' = returned
  /\ UNCHANGED <<config, machine>>
  /\ UNCHANGED outsidePython

installAttempts_twice(m, pythonPath) ==
  IF m.installOk
  THEN <<[op |-> "install", arg |-> pythonPath, ok |-> TRUE]>>
  ELSE <<[op |-> "install", arg |-> pythonPath, ok |-> FALSE],
         [op |-> "install", arg |-> pythonPath, ok |-> FALSE]>>
\* try { installAceteamNodes(pythonPath) } catch { ... process.exit(1) }
installAttempts(m, pythonPath) ==
  <<[op |-> "install", arg |-> pythonPath, ok |-> m.installOk]>>

\* ensurePython after findPython has settled
EnsureResume ==
  /\ frame.pc = "resume"
  /\ LET pythonPath == frame.found
     IN  IF pythonPath = Null
         THEN /\ log' = log \o <<Printed("error", NotFoundMessage), Exit(1)>>
              /\ returned' = [kind |-> "exit", code |-> 1]
              /\ machine' = machine
         ELSE IF isAceteamNodesInstalled(machine, pythonPath)
         THEN /\ log' = log \o <<Probe(machine, pythonPath)>>
              /\ returned' = [kind |-> "return", value |-> pythonPath]
              /\ machine' = machine
         ELSE IF machine.installOk
         THEN /\ log' = log \o <<Probe(machine, pythonPath),
                                 Printed("warn", <<"aceteam-nodes is not installed.">>),
                                 Printed("log", <<"Installing aceteam-nodes...">>)>>
                           \o installAttempts(machine, pythonPath)
                           \o <<Printed("success", <<"aceteam-nodes installed">>)>>
              /\ returned' = [kind |-> "return", value |-> pythonPath]
              /\ machine' = [machine EXCEPT !.importable = @ \cup {pythonPath}]
         ELSE /\ log' = log \o <<Probe(machine, pythonPath),
                                 Printed("warn", <<"aceteam-nodes is not installed.">>),
                                 Printed("log", <<"Installing aceteam-nodes...">>)>>
                           \o installAttempts(machine, pythonPath)
                           \o <<Printed("error", InstallFailedMessage), Exit(1)>>
              /\ returned' = [kind |-> "exit", code |-> 1]
              /\ machine' = machine
  /\ frame' = [frame EXCEPT !.pc = "done"]
  /\ UNCHANGED config
  /\ UNCHANGED outsidePython

NextPython ==
  \/ EnsureEnter
  \/ TryCandidate
  \/ EnsureResume

SpecPython == InitPython /\ [][NextPython]_vars

\* ====================================================== classifyPythonError
\* The raw text is a token sequence; a marker the function looks for is one
\* token, and a longer token may contain a marker.

\* the markers that occur inside a token
markersIn(token) ==
  CASE token = "httpx.ConnectError" -> {"httpx.ConnectError", "ConnectError"}
    [] token = "WorkflowFileNotFoundError"
         -> {"WorkflowFileNotFoundError", "FileNotFoundError"}
    [] token = "Incorrect API key" -> {"Incorrect API key", "API key"}
    [] token = "aceteam_nodes.cli" -> {"aceteam_nodes"}
    [] token = "port=4290" -> {"429"}
    [] OTHER -> {token}

\* raw.includes(marker)
includes(raw, marker) == \E i \in 1..Len(raw) : marker \in markersIn(raw[i])

\* /ModuleNotFoundError: No module named '([^']+)'/ tried at position i
moduleAt(raw, i) ==
  IF /\ i + 3 <= Len(raw)
     /\ "ModuleNotFoundError" \in markersIn(raw[i])
     /\ raw[i + 1] = ": No module named "
     /\ raw[i + 2] = "'"
     /\ raw[i + 3] # "'"
     /\ \E j \in (i + 4)..Len(raw) : raw[j] = "'"
  THEN LET j == CHOOSE k \in (i + 4)..Len(raw) :
                  raw[k] = "'" /\ \A n \in (i + 3)..(k - 1) : raw[n] # "'"
       IN  [found |-> TRUE, name |-> SubSeq(raw, i + 3, j - 1)]
  ELSE NoMatch

RECURSIVE moduleFrom(_, _)
moduleFrom(raw, i) ==
  IF i > Len(raw) THEN NoMatch
  ELSE IF moduleAt(raw, i).found THEN moduleAt(raw, i)
  ELSE moduleFrom(raw, i + 1)

\* errorLine.replace(/\s*\[type=.*\]/, "")
RECURSIVE stripTypeTag(_)
stripTypeTag(line) ==
  IF line = <<>> THEN <<>>
  ELSE IF Head(line) = " [type=...]" THEN <<>>
  ELSE <<Head(line)>> \o stripTypeTag(Tail(line))

\* line.match(/^\s{2}\S/)
isFieldLine(line) ==
  Len(line) >= 3 /\ line[1] = " " /\ line[2] = " " /\ line[3] # " "

\* extractPydanticFields: lines i.. of the text
RECURSIVE pydanticFieldsFrom(_, _)
pydanticFieldsFrom(lines, i) ==
  IF i > Len(lines) THEN <<>>
  ELSE LET errorLine == trim(lines[i + 1])
       IN  (IF /\ i + 1 <= Len(lines)
               /\ isFieldLine(lines[i])
               /\ errorLine # <<>>
               /\ errorLine[1] # "For further"
            THEN <<trim(lines[i]) \o <<": ">> \o stripTypeTag(errorLine)>>
            ELSE <<>>)
           \o pydanticFieldsFrom(lines, i + 1)

extractPydanticFields(raw) == pydanticFieldsFrom(split(raw), 1)

\* fieldErrors.map((f) => `  - ${f}`).join("\n")
RECURSIVE bulleted(_)
bulleted(fields) ==
  IF fields = <<>> THEN <<>>
  ELSE <<"  - ">> \o Head(fields)
         \o (IF Len(fields) > 1 THEN <<"\n">> ELSE <<>>)
         \o bulleted(Tail(fields))

\* [^'\n]+ from position i: the first position holding "'" or a line break
RECURSIVE skipPath(_, _)
skipPath(raw, i) ==
  IF i <= Len(raw) /\ raw[i] \notin {"'", "\n"} THEN skipPath(raw, i + 1) ELSE i

\* [:\s]* from position i
RECURSIVE skipColonSpace(_, _)
skipColonSpace(raw, i) ==
  IF i <= Len(raw) /\ raw[i] \in {":", " ", "\n"}
  THEN skipColonSpace(raw, i + 1)
  ELSE i

\* /(?:No such file or directory|not found)[:\s]*'?([^'\n]+)'?/ at position
\* i; the pattern backtracks over [:\s]* and '? until the group is not empty
pathAt(raw, i) ==
  LET s == skipColonSpace(raw, i + 1)
      q == IF s <= Len(raw) /\ raw[s] = "'" THEN s + 1 ELSE s
      starts == { k \in (i + 1)..q : skipPath(raw, k) > k }
  IN  IF raw[i] \in {"No such file or directory", "not found"} /\ starts # {}
      THEN LET k == CHOOSE n \in starts : \A o \in starts : o <= n
           IN  [found |-> TRUE, path |-> SubSeq(raw, k, skipPath(raw, k) - 1)]
      ELSE NoMatch

RECURSIVE pathFrom(_, _)
pathFrom(raw, i) ==
  IF i > Len(raw) THEN NoMatch
  ELSE IF pathAt(raw, i).found THEN pathAt(raw, i)
  ELSE pathFrom(raw, i + 1)

\* line.startsWith("Traceback") || ... "File " ... "^" ... "~~~" ...
\* "During handling"
startsWithNoise(line) ==
  line[1] \in {"Traceback", "File ", "^", "^ x250", "~~~", "During handling"}

\* .slice(0, 200): every text considered is shorter, except the run of 250
\* carets
slice200(text) ==
  IF text = <<"^ x250">> THEN <<"^ x200">> ELSE text

\* the loop of extractLastMeaningfulLine, from line i backwards
RECURSIVE lastMeaningfulFrom(_, _, _)
lastMeaningfulFrom(raw, lines, i) ==
  IF i = 0 THEN slice200(trim(raw))
  ELSE IF trim(lines[i]) # <<>> /\ ~startsWithNoise(trim(lines[i]))
  THEN trim(lines[i])
  ELSE lastMeaningfulFrom(raw, lines, i - 1)

extractLastMeaningfulLine(raw) ==
  lastMeaningfulFrom(raw, split(trim(raw)), Len(split(trim(raw))))

\* the condition of each if statement of classifyPythonError
matches(category, raw) ==
  CASE category = "missing-dependency" -> includes(raw, "ModuleNotFoundError")
    [] category = "authentication-failure"
         -> \/ includes(raw, "AuthenticationError")
            \/ includes(raw, "api_key")
            \/ includes(raw, "API key")
            \/ includes(raw, "Incorrect API key")
    [] category = "field-validation"
         -> includes(raw, "ValidationError") /\ includes(raw, "validation error")
    [] category = "connection-failure"
         -> \/ includes(raw, "ConnectionError")
            \/ includes(raw, "ConnectError")
            \/ includes(raw, "ECONNREFUSED")
            \/ includes(raw, "httpx.ConnectError")
    [] category = "file-not-found"
         -> \/ includes(raw, "FileNotFoundError")
            \/ includes(raw, "WorkflowFileNotFoundError")
    [] category = "timeout"
         -> includes(raw, "TimeoutError") \/ includes(raw, "timed out")
    [] category = "rate-limit"
         -> \/ includes(raw, "RateLimitError")
            \/ includes(raw, "rate_limit")
            \/ includes(raw, "429")
    [] OTHER -> TRUE

\* the grave accent that quotes a command in a suggestion
CodeQuote == "grave accent"

\* what the body of each if statement returns
resultOf(category, raw) ==
  CASE category = "missing-dependency"
         -> (LET moduleMatch == moduleFrom(raw, 1)
                 moduleName == IF moduleMatch.found THEN moduleMatch.name
                               ELSE <<"unknown">>
             IN  IF includes(moduleName, "aceteam_nodes")
                 THEN [message |-> <<"Python module \"aceteam_nodes\" is not installed.">>,
                       suggestion |-> <<"Run ", CodeQuote, "ace init", CodeQuote, " to install dependencies.">>]
                 ELSE [message |-> <<"Missing Python module: ">> \o moduleName,
                       suggestion |-> <<"Run ", CodeQuote, "ace init", CodeQuote, " to reinstall dependencies.">>])
    [] category = "authentication-failure"
         -> [message |-> <<"API authentication failed.">>,
             suggestion |-> <<"Set your API key: export OPENAI_API_KEY=sk-... or export ANTHROPIC_API_KEY=sk-ant-...">>]
    [] category = "field-validation"
         -> (IF extractPydanticFields(raw) # <<>>
             THEN [message |-> <<"Validation failed:", "\n">>
                                 \o bulleted(extractPydanticFields(raw))]
             ELSE [message |-> <<"Input validation failed. Check your workflow inputs.">>])
    [] category = "connection-failure"
         -> [message |-> <<"Network connection failed.">>,
             suggestion |-> <<"Check your internet connection and try again.">>]
    [] category = "file-not-found"
         -> [message |-> IF pathFrom(raw, 1).found
                         THEN <<"File not found: ">> \o trim(pathFrom(raw, 1).path)
                         ELSE <<"Workflow file not found.">>,
             suggestion |-> <<"Verify the file path and try again.">>]
    [] category = "timeout"
         -> [message |-> <<"Operation timed out.">>,
             suggestion |-> <<"Try again or check if the model endpoint is responding.">>]
    [] category = "rate-limit"
         -> [message |-> <<"Rate limited by the API provider.">>,
             suggestion |-> <<"Wait a moment and try again.">>]
    [] OTHER -> [message |-> extractLastMeaningfulLine(raw)]

categoryOrder_timeoutBeforeConnection ==
  <<"missing-dependency", "authentication-failure", "field-validation",
    "timeout", "connection-failure", "file-not-found", "rate-limit", "default">>
\* the order of the if statements
categoryOrder ==
  <<"missing-dependency", "authentication-failure", "field-validation",
    "connection-failure", "file-not-found", "timeout", "rate-limit", "default">>

\* the first if statement whose condition holds
RECURSIVE firstMatch(_, _)
firstMatch(raw, order) ==
  IF matches(Head(order), raw) THEN Head(order) ELSE firstMatch(raw, Tail(order))

classifyPythonError(raw) == resultOf(firstMatch(raw, categoryOrder), raw)

\* ---- the texts considered
CategoryLine(k) ==
  CASE k = 1 -> <<"ModuleNotFoundError", ": No module named ", "'", "torch", "'">>
    [] k = 2 -> <<"litellm.", "AuthenticationError", ": ", "Incorrect API key", " provided">>
    [] k = 3 -> <<"pydantic.", "ValidationError", ": 1 ", "validation error",
                  " for WorkflowInput">>
    [] k = 4 -> <<"httpx.ConnectError", ": Connection refused">>
    [] k = 5 -> <<"WorkflowFileNotFoundError", ":", " ", "No such file or directory",
                  ":", " ", "'", "workflow.json", "'">>
    [] k = 6 -> <<"TimeoutError", ": Operation ", "timed out">>
    [] OTHER -> <<"HTTP ", "429", " Too Many Requests">>

\* the lines of the chosen categories, one per line, in ascending or
\* descending order
RECURSIVE JoinLines(_, _, _)
JoinLines(chosen, k, ascending) ==
  LET next == IF ascending THEN k + 1 ELSE k - 1
      rest == IF next \in 1..7 THEN JoinLines(chosen, next, ascending) ELSE <<>>
  IN  IF k \notin chosen THEN rest
      ELSE IF rest = <<>> THEN CategoryLine(k)
      ELSE CategoryLine(k) \o <<"\n">> \o rest

TracebackLines ==
  <<"Traceback", " (most recent call last):", "\n",
    " ", " ", "File ", "\"something.py\", line 42, in main", "\n",
    " ", " ", " ", " ", "~~~", "^", "\n">>

SpecialTexts ==
  { <<>>,
    <<" ", "\n">>,
    <<"\n", "\n">>,
    TracebackLines,
    TracebackLines \o <<"ValueError: bad input">>,
    TracebackLines \o <<"ValueError: bad input", "\n", " ", "\n">>,
    <<"^ x250">>,
    <<"ModuleNotFoundError", ": No module named ", "'", "aceteam_nodes.cli", "'">>,
    <<"ModuleNotFoundError">>,
    <<"Error: ", "api_key", " must be set">>,
    <<"ValidationError">>,
    <<"pydantic.", "ValidationError", ": 2 ", "validation error", "s for WorkflowInput", "\n",
      " ", " ", "prompt", "\n",
      " ", " ", " ", " ", "Field required", " [type=...]", "\n",
      " ", " ", "temperature", "\n",
      " ", " ", " ", " ", "Input should be a valid number", " [type=...]">>,
    <<"FileNotFoundError", ": missing">>,
    <<"FileNotFoundError", ": ", "not found", ":", " ">>,
    <<"connect ", "ECONNREFUSED", " ", "port=4290">>,
    <<"request ", "timed out">>,
    <<"rate_limit", " exceeded">> }

ErrorTexts ==
  { JoinLines(chosen, 1, TRUE) : chosen \in SUBSET (1..7) }
    \cup { JoinLines(chosen, 7, FALSE) : chosen \in SUBSET (1..7) }
    \cup SpecialTexts

NotClassified == [category |-> "none"]

InitClassify ==
  /\ RetryIdle /\ RunIdle /\ PythonIdle /\ PairIdle /\ CliIdle
  /\ errorText \in ErrorTexts
  /\ classified = NotClassified

\* classifyPythonError(raw) is called and returns
Classify ==
  /\ classified = NotClassified
  /\ classified' = classifyPythonError(errorText)
  /\ UNCHANGED errorText
  /\ UNCHANGED outsideClassify

NextClassify == Classify

SpecClassify == InitClassify /\ [][NextClassify]_vars

\* ---- two runWorkflow calls in flight at the same time (python.ts)
MaxCallEvents == 2

CallIds == {1, 2}

\* let stdout = ""; let stderr = ""; let completedNodes = 0;
\* let totalNodes = 0; and the promise, as each call creates them
FreshCall ==
  [stdout |-> <<>>, stderr |-> <<>>, completedNodes |-> 0, totalNodes |-> 0,
   delivered |-> <<>>, promise |-> Pending]

scopeOf_moduleLevel(id) == 1
\* the variables a call's handlers close over: those declared by that call
scopeOf(id) == id

\* what one handler does to the variables it closes over
handle(c, ev) ==
  CASE ev.kind = "stdout" -> [c EXCEPT !.stdout = appendChunk(@, ev.chunk)]
    [] ev.kind = "stderr"
         -> (LET st == progressLines([completedNodes |-> c.completedNodes,
                                       totalNodes |-> c.totalNodes,
                                       parsed |-> <<>>,
                                       delivered |-> c.delivered],
                                      split(ev.chunk), TRUE)
             IN  [c EXCEPT !.stderr = appendChunk(@, ev.chunk),
                           !.completedNodes = st.completedNodes,
                           !.totalNodes = st.totalNodes,
                           !.delivered = st.delivered])
    [] OTHER
         -> [c EXCEPT !.promise =
               settle(@, [state |-> "resolved",
                          value |-> closeResult(c.stdout, c.stderr, ev.code)])]

PairStdoutChunks == { <<JsonSuccessOpen>>, <<JsonClose, "\n">> }

PairStderrChunks ==
  { <<"Workflow started", " ", "(", "2", " ", "nodes", ")", "\n">>,
    <<"[", "LLM", "]", " ", "running", "\n",
      " ", "[", "LLM", "]", " ", "DONE", "\n">> }

PairExitCodes == { ExitCode(0), ExitCode(1) }

\* the child of the call has exited
ChildClosed(id) == \E k \in 1..Len(history[id]) : history[id][k].kind = "close"

\* both calls have spawned their child and returned their promise; both
\* passed an onProgress observer
InitPair ==
  /\ RetryIdle /\ RunIdle /\ PythonIdle /\ ClassifyIdle /\ CliIdle
  /\ runs = [id \in CallIds |-> FreshCall]
  /\ history = [id \in CallIds |-> <<>>]

\* an event of the child of call id reaches the handler that call registered
Deliver(id, ev) ==
  /\ runs' = [runs EXCEPT ![scopeOf(id)] = handle(@, ev)]
  /\ history' = [history EXCEPT ![id] = Append(@, ev)]
  /\ UNCHANGED outsidePair

\* proc.stdout.on("data", ...) of one of the calls
PairStdoutData ==
  \E id \in CallIds :
    /\ ~ChildClosed(id)
    /\ Len(history[id]) < MaxCallEvents
    /\ \E chunk \in PairStdoutChunks : Deliver(id, [kind |-> "stdout", chunk |-> chunk])

\* proc.stderr.on("data", ...) of one of the calls
PairStderrData ==
  \E id \in CallIds :
    /\ ~ChildClosed(id)
    /\ Len(history[id]) < MaxCallEvents
    /\ \E chunk \in PairStderrChunks : Deliver(id, [kind |-> "stderr", chunk |-> chunk])

\* proc.on("close", ...) of one of the calls
PairClose ==
  \E id \in CallIds :
    /\ ~ChildClosed(id)
    /\ \E code \in PairExitCodes : Deliver(id, [kind |-> "close", code |-> code])

NextPair ==
  \/ PairStdoutData
  \/ PairStderrData
  \/ PairClose

SpecPair == InitPair /\ [][NextPair]_vars

\* ---- the 'workflow run' command (commands/workflow.ts)

\* item.indexOf("="), 0 when there is none (positions count from 1 here)
RECURSIVE indexOfEq(_, _)
indexOfEq(item, i) ==
  IF i > Len(item) THEN 0
  ELSE IF item[i] = "=" THEN i
  ELSE indexOfEq(item, i + 1)

\* eqIndex === -1
lacksEq_never(eqIndex) == FALSE
lacksEq(eqIndex) == eqIndex = 0

\* result[key] = value
assign(result, key, value) ==
  [k \in DOMAIN result \cup {key} |-> IF k = key THEN value ELSE result[k]]

\* parseInputArgs: the loop from item i on; stops at the first item
\* without "=", where it prints the error and exits
RECURSIVE parseInputFrom(_, _, _)
parseInputFrom(inputs, i, result) ==
  IF i > Len(inputs) THEN [exited |-> FALSE, result |-> result]
  ELSE LET item == inputs[i]
           eqIndex == indexOfEq(item, 1)
       IN  IF lacksEq(eqIndex)
           THEN [exited |-> TRUE, item |-> item]
           ELSE parseInputFrom(inputs, i + 1,
                               assign(result, SubSeq(item, 1, eqIndex - 1),
                                      SubSeq(item, eqIndex + 1, Len(item))))

parseInputArgs(inputs) == parseInputFrom(inputs, 1, [k \in {} |-> <<>>])

\* !config.fabric_url || !config.fabric_api_key
fabricConfigured(c) == c.fabric_url # Null /\ c.fabric_api_key # Null

\* a call of a method of the client, which sends HTTP requests through
\* FabricClient.request
ClientCall(op, url, apiKey, arg) ==
  [op |-> op, arg |-> [client |-> FabricClient(url, apiKey, EmptyOptions), with |-> arg],
   ok |-> TRUE]

\* the awaited call settled
Settled(settles) ==
  [op |-> "settled", arg |-> settles, ok |-> settles.kind \in {"resolve", "return"}]

\* process.exit(1) after output.error(message)
Fatal(message) == <<Printed("error", message), Exit(1)>>

\* !Array.isArray(nodes) || nodes.length === 0
noNodes_emptyOnly(nodes) == nodes.type = "array" /\ nodes.length = 0
noNodes(nodes) == nodes.type # "array" \/ nodes.length = 0

\* result.error || (result.errors ? JSON.stringify(result.errors) : "Unknown error")
rawErrorOf(result) ==
  IF result.error # Null THEN result.error
  ELSE IF result.errors # Null THEN result.errors
  ELSE <<"Unknown error">>

\* console.error of the classified message and of the suggestion if any
printClassified(c) ==
  <<Printed("error", c.message)>>
    \o (IF "suggestion" \in DOMAIN c THEN <<Printed("error", c.suggestion)>> ELSE <<>>)

\* ---- what the command may be given and may meet
WorkflowFile == <<"workflow.json">>
FileStates == {"missing", "invalid", "json"}

InputItems ==
  { <<"q", "=", "1">>,
    <<"q", "=", "a", "=", "b">>,
    <<"q">>,
    <<"=", "x">> }

InputLists ==
  {<<>>} \cup { <<a>> : a \in InputItems } \cup { <<a, b>> : a, b \in InputItems }

FabricUrl == <<"https://fabric.example">>
FabricKey == <<"key-1">>

StoredConfigs ==
  [fabric_url : {Null, FabricUrl}, fabric_api_key : {Null, FabricKey},
   default_model : {Null, <<"gpt-4o-mini">>}]

\* what discover() may settle with
DiscoverOutcomes ==
  { [kind |-> "resolve", value |-> [type |-> "array", length |-> n]] : n \in 0..2 }
    \cup { [kind |-> "resolve", value |-> [type |-> "object"]],
           [kind |-> "resolve", value |-> [type |-> "null"]],
           [kind |-> "reject", error |-> <<"Error: ", "Fabric API error (403): Forbidden">>] }

EnqueueOutcomes ==
  { [kind |-> "resolve", value |-> [type |-> "object"]],
    [kind |-> "reject", error |-> <<"Error: ", "Fabric API error (500): boom">>] }

\* what ensurePython() may do: return a path or end the process
EnsureOutcomes ==
  { [kind |-> "return", value |-> Python3Path], [kind |-> "exit", code |-> 1] }

\* what runWorkflow() may settle with
RunOutcomes ==
  { [kind |-> "resolve", value |-> [success |-> TRUE, error |-> Null, errors |-> Null]],
    [kind |-> "resolve",
     value |-> [success |-> FALSE, error |-> <<"request ", "timed out">>, errors |-> Null]],
    [kind |-> "resolve",
     value |-> [success |-> FALSE, error |-> Null, errors |-> <<"{\"q\":\"required\"}">>]],
    [kind |-> "resolve", value |-> [success |-> FALSE, error |-> Null, errors |-> Null]],
    [kind |-> "reject", error |-> <<"Error: spawn python3 ", "ENOENT">>] }

\* `ace workflow run <file> [-i k=v ...] [--remote] [--verbose]`
InitWorkflowRun ==
  /\ RetryIdle /\ RunIdle /\ PythonIdle /\ ClassifyIdle /\ PairIdle
  /\ command \in [name : {"workflow run"}, file : {WorkflowFile}, input : InputLists,
                  remote : BOOLEAN, verbose : BOOLEAN]
  /\ store \in [config : StoredConfigs, workflowFile : FileStates]
  /\ step = "start"
  /\ trail = <<>>

\* the action of the command up to its first await: the checks of the file
\* and of the inputs, then runRemoteWorkflow up to `await client.discover()`
\* or the call of ensurePython()
RunEnter ==
  /\ command.name = "workflow run"
  /\ step = "start"
  /\ LET input == parseInputArgs(command.input)
     IN  IF store.workflowFile = "missing"
         THEN /\ trail' = trail \o Fatal(<<"File not found: ">> \o command.file)
              /\ step' = "exited"
         ELSE IF store.workflowFile = "invalid"
         THEN /\ trail' = trail \o Fatal(<<"Invalid JSON file: ">> \o command.file)
              /\ step' = "exited"
         ELSE IF input.exited
         THEN /\ trail' = trail \o Fatal(<<"Invalid input format: ">> \o input.item
                                           \o <<". Use key=value">>)
              /\ step' = "exited"
         ELSE IF command.remote
         THEN IF ~fabricConfigured(store.config)
              THEN /\ trail' = trail \o Fatal(<<"Fabric not configured. Run: ace fabric login">>)
                   /\ step' = "exited"
              ELSE /\ trail' = Append(trail, ClientCall("discover", store.config.fabric_url,
                                                       store.config.fabric_api_key, NoCapability))
                   /\ step' = "awaitDiscover"
         ELSE /\ trail' = Append(trail, [op |-> "ensurePython", arg |-> <<>>, ok |-> TRUE])
              /\ step' = "awaitPython"
  /\ UNCHANGED <<command, store>>
  /\ UNCHANGED outsideCli

\* client.discover() settles; on a non-empty list the file is read again
\* and the workflow is submitted
DiscoverSettles ==
  /\ step = "awaitDiscover"
  /\ \E settles \in DiscoverOutcomes, reread \in FileStates :
       IF settles.kind = "reject"
       THEN /\ trail' = trail \o <<Settled(settles), Printed("fail", <<"Failed to discover nodes">>)>>
                              \o Fatal(settles.error)
            /\ step' = "exited"
       ELSE IF noNodes(settles.value)
       THEN /\ trail' = trail \o <<Settled(settles),
                                   Printed("fail", <<"No remote nodes available">>), Exit(1)>>
            /\ step' = "exited"
       ELSE IF reread # "json"
       THEN /\ trail' = trail \o <<Settled(settles), Printed("succeed", <<"Found nodes">>),
                                   [op |-> "throw", arg |-> <<reread>>, ok |-> FALSE]>>
            /\ step' = "threw"
       ELSE /\ trail' = trail \o <<Settled(settles), Printed("succeed", <<"Found nodes">>),
                                   ClientCall("enqueueWorkflow", store.config.fabric_url,
                                              store.config.fabric_api_key,
                                              [workflow |-> command.file,
                                               input |-> parseInputArgs(command.input).result])>>
            /\ step' = "awaitEnqueue"
  /\ UNCHANGED <<command, store>>
  /\ UNCHANGED outsideCli

\* client.enqueueWorkflow() settles
EnqueueSettles ==
  /\ step = "awaitEnqueue"
  /\ \E settles \in EnqueueOutcomes :
       IF settles.kind = "reject"
       THEN /\ trail' = trail \o <<Settled(settles),
                                   Printed("fail", <<"Remote workflow execution failed">>)>>
                              \o Fatal(settles.error)
            /\ step' = "exited"
       ELSE /\ trail' = trail \o <<Settled(settles), Printed("succeed", <<"Workflow enqueued">>),
                                   Printed("log", <<"Result:">>)>>
            /\ step' = "done"
  /\ UNCHANGED <<command, store>>
  /\ UNCHANGED outsideCli

\* ensurePython() returns or ends the process; with a path runWorkflow
\* spawns the child
EnsureSettles ==
  /\ step = "awaitPython"
  /\ \E settles \in EnsureOutcomes :
       IF settles.kind = "exit"
       THEN /\ trail' = trail \o <<Settled(settles), Exit(settles.code)>>
            /\ step' = "exited"
       ELSE /\ trail' = trail \o
                         <<Settled(settles),
                           [op |-> "runWorkflow",
                            arg |-> [pythonPath |-> settles.value,
                                     file |-> command.file,
                                     input |-> parseInputArgs(command.input).result,
                                     verbose |-> command.verbose],
                            ok |-> TRUE]>>
            /\ step' = "awaitRun"
  /\ UNCHANGED <<command, store>>
  /\ UNCHANGED outsideCli

\* runWorkflow() settles
RunSettles ==
  /\ step = "awaitRun"
  /\ \E settles \in RunOutcomes :
       IF settles.kind = "reject"
       THEN /\ trail' = trail \o <<Settled(settles), Printed("fail", <<"Workflow execution error">>)>>
                              \o printClassified(classifyPythonError(settles.error))
                              \o <<Exit(1)>>
            /\ step' = "exited"
       ELSE IF settles.value.success
       THEN /\ trail' = trail \o <<Settled(settles), Printed("succeed", <<"Workflow completed">>),
                                   Printed("log", <<"Output:">>)>>
            /\ step' = "done"
       ELSE /\ trail' = trail \o <<Settled(settles), Printed("fail", <<"Workflow failed">>)>>
                              \o printClassified(classifyPythonError(rawErrorOf(settles.value)))
                              \o <<Exit(1)>>
            /\ step' = "exited"
  /\ UNCHANGED <<command, store>>
  /\ UNCHANGED outsideCli

NextWorkflowRun ==
  \/ RunEnter
  \/ DiscoverSettles
  \/ EnqueueSettles
  \/ EnsureSettles
  \/ RunSettles

SpecWorkflowRun == InitWorkflowRun /\ [][NextWorkflowRun]_vars

\* ---- the 'fabric login' command (commands/fabric.ts)

DefaultFabricUrl == <<"https://app.aceteam.ai">>

\* what the user may type at the two prompts
UrlAnswers ==
  { <<>>, <<" ">>, <<"https://other.example">>, <<" ", "https://other.example", "/", "\n">> }

KeyAnswers ==
  { <<>>, <<" ", "\n">>, <<"key-2">>, <<" ", "key-2", " ">> }

\* what status() may settle with
StatusOutcomes ==
  { [kind |-> "resolve", value |-> [type |-> "object"]],
    [kind |-> "reject", error |-> <<"Error: ", "Fabric API error (401): Unauthorized">>],
    [kind |-> "reject", error |-> <<"TypeError: ", "fetch failed">>] }

\* rl.question(prompt) and the line it resolved with
Question(prompt) == [op |-> "question", arg |-> prompt, ok |-> TRUE]
Answer(line) == [op |-> "answer", arg |-> line, ok |-> TRUE]

\* config.fabric_url || "https://app.aceteam.ai"
defaultUrl(c) == IF c.fabric_url # Null THEN c.fabric_url ELSE DefaultFabricUrl

\* urlInput.trim() || defaultUrl
fabricUrlOf(urlInput, c) == IF trim(urlInput) # <<>> THEN trim(urlInput) ELSE defaultUrl(c)

\* !apiKeyInput.trim()
keyMissing_untrimmed(line) == line = <<>>
keyMissing(line) == trim(line) = <<>>

\* the locals of the action, as the trail holds them
loadedConfig == trail[1].arg
urlInput == trail[3].arg
apiKeyInput == trail[5].arg

InitLogin ==
  /\ RetryIdle /\ RunIdle /\ PythonIdle /\ ClassifyIdle /\ PairIdle
  /\ command = [name |-> "fabric login"]
  /\ store \in [config : StoredConfigs, workflowFile : {"missing"}]
  /\ step = "start"
  /\ trail = <<>>

\* the action up to the first prompt: loadConfig() and rl.question of the URL
LoginEnter ==
  /\ command.name = "fabric login"
  /\ step = "start"
  /\ trail' = <<[op |-> "loadConfig", arg |-> store.config, ok |-> TRUE],
                Question(<<"API URL [">> \o defaultUrl(store.config) \o <<"]: ">>)>>
  /\ step' = "awaitUrl"
  /\ UNCHANGED <<command, store>>
  /\ UNCHANGED outsideCli

\* the URL was typed; the key is asked for
UrlAnswered ==
  /\ step = "awaitUrl"
  /\ \E line \in UrlAnswers :
       trail' = trail \o <<Answer(line), Question(<<"API Key: ">>)>>
  /\ step' = "awaitKey"
  /\ UNCHANGED <<command, store>>
  /\ UNCHANGED outsideCli

\* the key was typed; an empty one ends the command, any other is verified
\* by client.status()
KeyAnswered ==
  /\ step = "awaitKey"
  /\ \E line \in KeyAnswers :
       IF keyMissing(line)
       THEN /\ trail' = trail \o <<Answer(line)>> \o Fatal(<<"API key is required">>)
            /\ step' = "exited"
       ELSE /\ trail' = trail \o <<Answer(line),
                                   ClientCall("status", fabricUrlOf(urlInput, loadedConfig),
                                              trim(line), <<>>)>>
            /\ step' = "awaitStatus"
  /\ UNCHANGED <<command, store>>
  /\ UNCHANGED outsideCli

\* saveConfig(config) after config.fabric_url and config.fabric_api_key
\* were assigned
savedConfig(c, url, apiKey) ==
  [c EXCEPT !.fabric_url = url, !.fabric_api_key = apiKey]

\* client.status() settles: the credentials are saved, or the command ends
StatusSettles ==
  /\ step = "awaitStatus"
  /\ \E settles \in StatusOutcomes :
       LET fabricUrl == fabricUrlOf(urlInput, loadedConfig)
           saved == savedConfig(loadedConfig, fabricUrl, trim(apiKeyInput))
       IN  IF settles.kind = "reject"
           THEN /\ trail' = trail \o <<Settled(settles),
                                       Printed("fail", <<"Connection failed">>)>>
                                  \o Fatal(settles.error)
                /\ store' = store
                /\ step' = "exited"
           ELSE /\ trail' = trail \o <<Settled(settles),
                                       Printed("succeed", <<"Connected to Fabric">>),
                                       [op |-> "saveConfig", arg |-> saved, ok |-> TRUE],
                                       Printed("success", <<"Fabric credentials saved">>),
                                       Printed("info", <<"URL: ">> \o fabricUrl)>>
                /\ store' = [store EXCEPT !.config = saved]
                /\ step' = "done"
  /\ UNCHANGED command
  /\ UNCHANGED outsideCli

NextLogin ==
  \/ LoginEnter
  \/ UrlAnswered
  \/ KeyAnswered
  \/ StatusSettles

SpecLogin == InitLogin /\ [][NextLogin]_vars

\* ================================================================= claims
\* `outcome` is the latest settled invocation; the invocation that produced
\* it is outcome.error.id (or outcome.value.id).  An invocation is only ever
\* followed by another one after it threw and the throw was retried, so "the
\* latest invocation threw" is the state in which every invocation so far did.
Threw == outcome.kind = "throw"
Returned == outcome.kind = "return"

\* the retry predicate in force accepts the error
Accepts(error) ==
  IF "shouldRetry" \in DOMAIN options
  THEN error.type \in {"Error", "TypeError", "SyntaxError"}
       /\ Includes(error.msg, <<"custom-retryable">>)
  ELSE isRetryableError(error)

\* every invocation so far failed with an error the predicate accepts
AlwaysFailing == outcome = NoOutcome \/ (Threw /\ Accepts(outcome.error))

\* C1: with maxRetries = N >= 0 and an operation that fails every time with an
\* error the retry predicate accepts, withRetry invokes the operation exactly
\* N+1 times, suspends exactly N times (one suspension between consecutive
\* invocations, none after the last) and rejects with the error value raised
\* by the final invocation.
C1_ExhaustionRejectsWithLastError ==
  (maxRetriesOf(options) >= 0 /\ AlwaysFailing) =>
    /\ settled.state # "resolved"
    /\ calls <= maxRetriesOf(options) + 1
    /\ Len(delays) <= maxRetriesOf(options)
    /\ calls = attempt + (IF pc = "loop" THEN 0 ELSE 1)
    /\ Len(delays) = attempt + (IF pc = "sleeping" THEN 1 ELSE 0)
    /\ settled.state = "rejected" =>
         /\ calls = maxRetriesOf(options) + 1
         /\ Len(delays) = maxRetriesOf(options)
         /\ timer = -1
         /\ settled.error = outcome.error
         /\ settled.error.id = maxRetriesOf(options) + 1

C1_Witness ==
  /\ maxRetriesOf(options) = 2
  /\ Threw
  /\ Accepts(outcome.error)
  /\ settled.state = "rejected"
  /\ calls = 3
  /\ Len(delays) = 2
  /\ settled.error.id = 3

\* C2: if the first k invocations (k <= maxRetries) fail with retryable errors
\* and invocation k+1 succeeds, withRetry resolves with exactly the value of
\* that invocation, the operation has been invoked exactly k+1 times and is
\* never invoked again, and no earlier error reaches the caller.
C2_EventualSuccessResolves ==
  (Returned /\ outcome.value.id - 1 <= maxRetriesOf(options)) =>
    /\ pc = "resolved"
    /\ settled = [state |-> "resolved", value |-> outcome.value]
    /\ settled.value.id = calls
    /\ calls = attempt + 1
    /\ Len(delays) = attempt
    /\ attempt > 0 => (lastError.id = attempt /\ Accepts(lastError))
    /\ ~ENABLED Invoke
    /\ ~ENABLED TimerFires

C2_Witness ==
  /\ settled.state = "resolved"
  /\ calls = 3
  /\ Returned
  /\ lastError.id = 2
  /\ settled.value = [id |-> 3, val |-> "ok"]

\* C3: when an invocation fails with an error for which shouldRetry returns
\* false, withRetry rejects with that error at once: no suspension is started
\* and the operation is not invoked again, however many retries remain.
C3_NonRetryablePropagatesImmediately ==
  (Threw /\ ~Accepts(outcome.error)) =>
    /\ pc = "rejected"
    /\ settled = [state |-> "rejected", error |-> outcome.error]
    /\ settled.error.id = calls
    /\ Len(delays) = calls - 1
    /\ timer = -1
    /\ ~ENABLED Invoke
    /\ ~ENABLED TimerFires

C3_Witness ==
  /\ calls = 1
  /\ Threw
  /\ ~Accepts(outcome.error)
  /\ maxRetriesOf(options) = 3
  /\ attempt < maxRetriesOf(options)
  /\ settled.state = "rejected"
  /\ delays = <<>>

\* ---- FabricClient
IsResponse == response.kind = "response"
NonSuccess == IsResponse /\ ~(response.status >= 200 /\ response.status <= 299)
SuccessWithJson ==
  /\ IsResponse
  /\ response.status >= 200 /\ response.status <= 299
  /\ response.json # "invalid"
TransientFailure ==
  \/ response.kind = "networkError"
  \/ IsResponse /\ response.status \in {429, 502, 503, 504}
DefaultPredicateInUse == ~("shouldRetry" \in DOMAIN ctorArgs.retryOptions)

C5_OtherStatusNeverRetried ==
  ( /\ caller = "FabricClient"
    /\ DefaultPredicateInUse
    /\ NonSuccess
    /\ response.status \notin {429, 502, 503, 504} ) =>
      /\ pc = "rejected"
      /\ settled.state = "rejected"
      /\ settled.error.id = calls
      /\ SubSeq(settled.error.msg, 1, 7) =
           <<"Fabric API error ", "(">> \o Decimal(response.status) \o <<")", ": ">>

\* C6: for every non-success response with status S the attempt fails with an
\* error whose message is exactly 'Fabric API error (S): D', D being the body
\* text when it is non-empty and the status reason phrase when it is empty;
\* a non-success response never yields a value.
ExpectedDetail ==
  IF Len(response.body) > 0 THEN response.body ELSE response.statusText
ExpectedMessage ==
  <<"Fabric API error ", "(">> \o Decimal(response.status) \o <<")", ": ">>
    \o ExpectedDetail

C6_NonSuccessErrorMessage ==
  caller = "FabricClient" =>
    /\ NonSuccess =>
         /\ Threw
         /\ outcome.error.type = "Error"
         /\ outcome.error.msg = ExpectedMessage
         /\ lastError = outcome.error
         /\ settled.state # "resolved"
         /\ settled.state = "rejected" => settled.error = outcome.error
    /\ settled.state = "resolved" =>
         /\ IsResponse
         /\ response.status >= 200 /\ response.status <= 299
         /\ settled.value.val = response.json

C6_Witness ==
  /\ caller = "FabricClient"
  /\ calls = 2
  /\ NonSuccess /\ response.body = <<>> /\ response.status = 500
  /\ settled.state = "rejected"
  /\ settled.error.msg = <<"Fabric API error ", "(", "5", "0", "0", ")", ": ",
                           "Internal Server Error">>

\* C7: the default retry predicate returns true for every error whose message
\* contains '(429)', '(502)', '(503)' or '(504)' and for every network-level
\* failure (ECONNREFUSED, ECONNRESET, ETIMEDOUT, EAI_AGAIN, 'fetch failed', a
\* TypeError mentioning fetch); every message FabricClient builds for a status
\* in {429, 502, 503, 504} is retryable.
TransientMarkers ==
  { <<"(", "4", "2", "9", ")">>, <<"(", "5", "0", "2", ")">>,
    <<"(", "5", "0", "3", ")">>, <<"(", "5", "0", "4", ")">> }
NetworkFailureTexts ==
  { <<"ECONNREFUSED">>, <<"ECONNRESET">>, <<"ETIMEDOUT">>, <<"EAI_AGAIN">>,
    <<"fetch", " failed">> }
ShouldBeRetryable(error) ==
  \/ \E m \in TransientMarkers \cup NetworkFailureTexts : Includes(error.msg, m)
  \/ error.type = "TypeError" /\ Includes(error.msg, <<"fetch">>)

C7_DefaultPredicateAcceptsTransientErrors ==
  /\ (Threw /\ ShouldBeRetryable(outcome.error)) =>
       /\ isRetryableError(outcome.error)
       /\ ( /\ ~("shouldRetry" \in DOMAIN options)
            /\ outcome.error.id - 1 < maxRetriesOf(options) ) =>
            /\ Len(delays) >= outcome.error.id
            /\ askedWith = outcome.error
            /\ settled.state = "pending"
  /\ (caller = "FabricClient" /\ IsResponse /\ response.status \in {429, 502, 503, 504}) =>
       (Threw /\ isRetryableError(outcome.error))

C7_Witness ==
  /\ caller = "FabricClient"
  /\ DefaultPredicateInUse
  /\ calls = 1
  /\ IsResponse /\ response.status = 504 /\ response.body = <<>>
  /\ pc = "sleeping"
  /\ askedWith = outcome.error

\* ---- backoff
EffectiveBaseDelayMs ==
  IF "baseDelayMs" \in DOMAIN options THEN options.baseDelayMs ELSE 1000
EffectiveMaxDelayMs ==
  IF "maxDelayMs" \in DOMAIN options THEN options.maxDelayMs ELSE 10000
\* min(baseDelayMs * 2^i, maxDelayMs)
CappedExponential(i) ==
  IF EffectiveBaseDelayMs * 2 ^ i <= EffectiveMaxDelayMs
  THEN EffectiveBaseDelayMs * 2 ^ i
  ELSE EffectiveMaxDelayMs

\* C8: the suspension d_i after attempt index i satisfies
\* min(baseDelayMs * 2^i, maxDelayMs) <= d_i <= 1.1 * min(baseDelayMs * 2^i,
\* maxDelayMs); no suspension exceeds 1.1 * maxDelayMs and the un-jittered
\* delay never decreases from one attempt to the next.  (timer is d_i in
\* units of 1/TimeScale ms.)
C8_BackoffDelayBounds ==
  /\ pc = "sleeping" =>
       /\ Len(delays) = attempt + 1
       /\ CappedExponential(attempt) * TimeScale <= timer
       /\ 10 * timer <= 11 * CappedExponential(attempt) * TimeScale
       /\ 10 * timer <= 11 * EffectiveMaxDelayMs * TimeScale
  /\ pc # "sleeping" => timer = -1
  /\ \A i \in 1..Len(delays) : delays[i] = CappedExponential(i - 1)
  /\ \A i \in 1..(Len(delays) - 1) : delays[i] <= delays[i + 1]

C8_Witness ==
  /\ pc = "sleeping"
  /\ attempt = 1
  /\ EffectiveBaseDelayMs = 2 /\ EffectiveMaxDelayMs = 3
  /\ delays = <<2, 3>>
  /\ timer > 3 * TimeScale

\* C9: a supplied shouldRetry predicate alone decides retryability: an error
\* the default predicate rejects is retried when the custom predicate accepts
\* it, an error the default predicate accepts is propagated at once when the
\* custom predicate rejects it, and the predicate is called with exactly the
\* error raised by the latest attempt.
CustomPredicateAccepts(error) ==
  error.type \in {"Error", "TypeError", "SyntaxError"}
    /\ Includes(error.msg, <<"custom-retryable">>)

C9_CustomPredicateDecides ==
  /\ asked > 0 => (askedWith.id = asked /\ asked <= calls)
  /\ (Threw /\ outcome.error.id - 1 < maxRetriesOf(options)) =>
       (asked = outcome.error.id /\ askedWith = outcome.error)
  /\ ( /\ "shouldRetry" \in DOMAIN options
       /\ Threw
       /\ outcome.error.id - 1 < maxRetriesOf(options) ) =>
         /\ CustomPredicateAccepts(outcome.error) =>
              (Len(delays) >= outcome.error.id /\ settled.state = "pending")
         /\ ~CustomPredicateAccepts(outcome.error) =>
              /\ calls = outcome.error.id
              /\ Len(delays) = calls - 1
              /\ settled = [state |-> "rejected", error |-> outcome.error]

C9_Witness ==
  /\ "shouldRetry" \in DOMAIN options
  /\ maxRetriesOf(options) = 2
  /\ calls = 2
  /\ Threw
  /\ outcome.error.msg = <<"ECONNREFUSED">>
  /\ isRetryableError(outcome.error)
  /\ askedWith = outcome.error
  /\ Len(delays) = 1
  /\ settled.state = "rejected"

\* C10: every HTTP attempt of one FabricClient call, first attempt and retries
\* alike, is the same request: the base URL with all trailing slashes removed
\* followed by the operation's fixed path (with ?capability=<tag>, the tag
\* form-urlencoded as a query value, iff a non-empty capability is given), the
\* same method and body, 'Authorization: Bearer <key>' and
\* 'Content-Type: application/json'.
BaseWithoutTrailingSlashes ==
  LET u == ctorArgs.url
      k == CHOOSE j \in 0..Len(u) :
             /\ j > 0 => u[j] # "/"
             /\ \A i \in (j + 1)..Len(u) : u[i] = "/"
  IN SubSeq(u, 1, k)

ExpectedPath ==
  CASE call.op = "discover" ->
         IF call.capability # NoCapability /\ Len(call.capability) > 0
         THEN <<"/api/fabric/discover/nodes", "?", "capability", "=">>
                \o urlEncode(call.capability)
         ELSE <<"/api/fabric/discover/nodes">>
    [] call.op = "status" -> <<"/api/fabric/nodes/load">>
    [] call.op = "enqueueWorkflow" -> <<"/api/fabric/call">>

ExpectedRequest ==
  [url |-> BaseWithoutTrailingSlashes \o ExpectedPath,
   method |-> IF call.op = "enqueueWorkflow" THEN "POST" ELSE "GET",
   body |-> IF call.op = "enqueueWorkflow"
            THEN <<"{", "\"workflow\"", ":", call.workflow, ",",
                   "\"input\"", ":", call.input, "}">>
            ELSE NoBody,
   headers |-> [Authorization |-> <<"Bearer ", ctorArgs.apiKey>>,
                ContentType |-> <<"application/json">>]]

C10_EveryAttemptIsTheSameRequest ==
  caller = "FabricClient" =>
    /\ \A i \in 1..Len(requests) : requests[i] = ExpectedRequest
    /\ (call.op = "discover" /\ call.capability = <<"gpu", ":", "a100">>
          /\ ctorArgs.url = <<"https://example.com", "/", "/", "/">>) =>
         \A i \in 1..Len(requests) :
           requests[i].url = <<"https://example.com", "/api/fabric/discover/nodes",
                               "?", "capability", "=", "gpu", "%3A", "a100">>

C10_Witness ==
  /\ caller = "FabricClient"
  /\ ctorArgs.url = <<"https://example.com", "/", "/", "/">>
  /\ call.op = "discover"
  /\ call.capability = <<"gpu", ":", "a100">>
  /\ Len(requests) = 3
  /\ requests[3] = requests[1]
  /\ requests[3].url = <<"https://example.com", "/api/fabric/discover/nodes",
                         "?", "capability", "=", "gpu", "%3A", "a100">>


\* ------------------------------------------------- claims about runWorkflow
\* The promise is settled by the first of the child's 'close' and 'error'
\* events (C16), so what a 'close' event delivers is stated for a run whose
\* first terminal event is 'close'.  No data arrives after 'close': stdout
\* and stderr are the buffers the handler saw.
ClosedFirst == terminal # <<>> /\ terminal[1].kind = "close"
ErroredFirst == terminal # <<>> /\ terminal[1].kind = "error"

Blank(text) == \A i \in 1..Len(text) : text[i] \in {" ", "\n"}

ResolvedWith(value) == promise = [state |-> "resolved", value |-> value]

\* C11: when the child terminates and the buffered stdout is non-blank and
\* parses as JSON, runWorkflow resolves with exactly the parsed value, for
\* every exit code and whatever stderr contains.
C11_JsonStdoutIsTheResult ==
  (ClosedFirst /\ ~Blank(stdout) /\ JSONparse(stdout).ok)
    => ResolvedWith(JSONparse(stdout).value)

\* a child that exits with code 1 after writing a success document to
\* stdout, in two chunks, and progress lines to stderr
C11_Witness ==
  /\ ClosedFirst
  /\ terminal[1].code = ExitCode(1)
  /\ stdout = <<JsonSuccessOpen, JsonClose, "\n">>
  /\ ~Blank(stderr)
  /\ ResolvedWith([success |-> TRUE, output |-> [answer |-> "42"]])

\* C12: when the child terminates with blank stdout and non-blank stderr,
\* runWorkflow resolves with the JSON parse of the whole stderr buffer if it
\* parses, and otherwise with {success: false, error: <stderr trimmed>}; it
\* does not reject.
C12_StderrIsTheFallback ==
  (ClosedFirst /\ Blank(stdout) /\ ~Blank(stderr))
    => /\ promise.state = "resolved"
       /\ JSONparse(stderr).ok => promise.value = JSONparse(stderr).value
       /\ ~JSONparse(stderr).ok
            => promise.value = [success |-> FALSE, error |-> trim(stderr)]

\* stderr holds text that is not JSON and ends with a line break; stdout
\* holds white space only
C12_Witness ==
  /\ ClosedFirst
  /\ stdout = <<"\n">>
  /\ ~Blank(stderr)
  /\ ~JSONparse(stderr).ok
  /\ trim(stderr) # stderr
  /\ ResolvedWith([success |-> FALSE, error |-> trim(stderr)])

\* `${code}` for the exit codes of ExitCodes, written out
RenderedCode(code) ==
  IF code = NullCode THEN <<"null">>
  ELSE IF code = ExitCode(0) THEN <<"0">>
  ELSE <<"1">>

\* C13: when the child terminates with exit code c having written nothing,
\* or only white space, to both channels, runWorkflow resolves with exactly
\* {success: false, error: "Process exited with code c"}.
C13_SilentChildNamesTheExitCode ==
  (ClosedFirst /\ Blank(stdout) /\ Blank(stderr))
    => ResolvedWith([success |-> FALSE,
                     error |-> <<"Process exited with code ">>
                                 \o RenderedCode(terminal[1].code)])

\* the child wrote white space to both channels and exited with code 1
C13_Witness ==
  /\ ClosedFirst
  /\ terminal[1].code = ExitCode(1)
  /\ stdout # <<>> /\ Blank(stdout)
  /\ stderr # <<>> /\ Blank(stderr)
  /\ ResolvedWith([success |-> FALSE,
                   error |-> <<"Process exited with code ", "1">>])

\* C14: when the child terminates with non-blank stdout that does not parse
\* as JSON, runWorkflow does not reject: it resolves with {success: false,
\* error: <the raw buffered stdout>}, whatever stderr contains.
C14_UnparsableStdoutIsTheError ==
  (ClosedFirst /\ ~Blank(stdout) /\ ~JSONparse(stdout).ok)
    => ResolvedWith([success |-> FALSE, error |-> stdout])

\* stdout is a complete document followed by the start of another one, with
\* a trailing line break that is kept; stderr holds text too
C14_Witness ==
  /\ ClosedFirst
  /\ Len(stdout) >= 2
  /\ ~JSONparse(stdout).ok
  /\ trim(stdout) # stdout
  /\ stderr # <<>>
  /\ ResolvedWith([success |-> FALSE, error |-> stdout])


\* C15: a process-level error event on the child makes runWorkflow reject
\* with that error, and it is the only way runWorkflow rejects: what a
\* 'close' event delivers is always a resolved result.
C15_OnlyProcessErrorsReject ==
  /\ promise.state = "rejected"
       => /\ ErroredFirst
          /\ promise.error = terminal[1].err
  /\ ErroredFirst => promise = [state |-> "rejected", error |-> terminal[1].err]
  /\ ClosedFirst => promise.state = "resolved"

\* the child failed with a process error after it had written a complete
\* result document to stdout
C15_Witness ==
  /\ terminal = <<[kind |-> "error", err |-> [code |-> "ENOENT"]]>>
  /\ JSONparse(stdout).ok
  /\ promise = [state |-> "rejected", error |-> [code |-> "ENOENT"]]

\* what the handler of a terminal event passes to resolve or reject, given
\* the buffers it sees
OutcomeOf(event) ==
  IF event.kind = "close"
  THEN [state |-> "resolved", value |-> closeResult(stdout, stderr, event.code)]
  ELSE [state |-> "rejected", error |-> event.err]

\* C16: for every interleaving of the child's 'close' and 'error' events,
\* both firing in either order included, the promise is settled exactly
\* once, with the outcome of the event that occurred first; the later event
\* never changes the outcome.
C16_FirstTerminalEventWins ==
  /\ [](promise.state = "pending" <=> terminal = <<>>)
  /\ [][promise.state # "pending" => promise' = promise]_vars
  /\ [][(terminal = <<>> /\ terminal' # <<>>) => promise' = OutcomeOf(terminal'[1])]_vars

\* 'close' came first and resolved the promise with a result; 'error' fired
\* afterwards
C16_Witness ==
  /\ Len(terminal) = 2
  /\ terminal[1].kind = "close"
  /\ terminal[2].kind = "error"
  /\ promise.state = "resolved"
  /\ promise.value = closeResult(stdout, stderr, terminal[1].code)

IsPrefix(s, t) == Len(s) <= Len(t) /\ SubSeq(t, 1, Len(s)) = s

\* C17: runWorkflow never settles before the child has terminated or raised
\* a process error: stdout data is only appended to the buffer, even when
\* the buffer already holds a complete JSON object, and the buffer is
\* interpreted at termination over the concatenation of all chunks.
C17_StdoutIsInterpretedAtTermination ==
  /\ [](terminal = <<>> => promise.state = "pending")
  /\ [][stdout' # stdout
          => /\ promise' = promise
             /\ IsPrefix(stdout, stdout')
             /\ \E chunk \in StdoutChunks : stdout' = stdout \o chunk]_vars
  /\ [][(terminal = <<>> /\ Closed')
          => /\ stdout' = stdout
             /\ JSONparse(stdout).ok => promise'.value = JSONparse(stdout).value
             /\ (~Blank(stdout) /\ ~JSONparse(stdout).ok)
                  => promise'.value = [success |-> FALSE, error |-> stdout]]_vars

\* the buffer held a complete JSON object after the first chunk; two more
\* chunks arrived and the promise is still pending
C17_Witness ==
  /\ terminal = <<>>
  /\ promise.state = "pending"
  /\ Len(stdout) = 3
  /\ JSONparse(<<stdout[1]>>).ok
  /\ ~JSONparse(stdout).ok


\* the shape of an ExecutionResult (RunResult): a boolean success, output
\* only on success, error fields only on failure
WellFormedResult(value) ==
  /\ "success" \in DOMAIN value
  /\ value.success \in BOOLEAN
  /\ "output" \in DOMAIN value => value.success
  /\ ({"error", "errors"} \cap DOMAIN value) # {} => ~value.success

\* C18: every value runWorkflow resolves with is a well-formed
\* ExecutionResult; child output that parses as JSON but lacks this shape is
\* replaced by a synthetic failed result.
C18_ResolvedValuesAreWellFormed ==
  promise.state = "resolved"
    => /\ WellFormedResult(promise.value)
       /\ promise.value # JsonValue(<<JsonOther>>)

\* the line has one of the four forms from its first character on
StartedForm(line) == line # <<>> /\ startedAt(line, 1).found
NodeForm(line, keyword) == line # <<>> /\ bracketedAt(line, 1, keyword).found
\* none of the four forms occurs anywhere in the line
NoForm(line) ==
  \A i \in 1..Len(line) :
    /\ ~startedAt(line, i).found
    /\ \A keyword \in {"running", "done", "error:"} :
         ~bracketedAt(line, i, keyword).found

\* C19: parseProgressLine maps 'Workflow started (N nodes)' to Started with
\* totalNodes N, '[X] running' to NodeRunning with nodeName X, '[X] done' to
\* NodeDone with nodeName X, '[X] error: M' to NodeError with nodeName X and
\* message M, in any letter case, and a line of none of these forms to no
\* event.
C19_ProgressLineGrammar ==
  \A i \in 1..Len(parsed) :
    LET line == parsed[i].line
        event == parsed[i].event
    IN  /\ StartedForm(line)
             => event = [type |-> "started",
                         totalNodes |-> parseInt(startedAt(line, 1).count)]
        /\ NodeForm(line, "running")
             => event = [type |-> "node_running",
                         nodeName |-> bracketedAt(line, 1, "running").name]
        /\ NodeForm(line, "done")
             => event = [type |-> "node_done",
                         nodeName |-> bracketedAt(line, 1, "done").name]
        /\ NodeForm(line, "error:")
             => /\ event.type = "node_error"
                /\ event.nodeName = bracketedAt(line, 1, "error:").name
                /\ event.message =
                     SubSeq(line,
                            skipSpace(line, bracketedAt(line, 1, "error:").end + 1),
                            Len(line))
        /\ NoForm(line) => event = NoEvent

\* number of node_done events among the first n delivered ones
RECURSIVE DoneAmong(_)
DoneAmong(n) ==
  IF n = 0 THEN 0
  ELSE DoneAmong(n - 1) + (IF delivered[n].type = "node_done" THEN 1 ELSE 0)

\* C20: each NodeDone event forwarded to the observer carries as current
\* index the number of NodeDone events forwarded so far, itself included;
\* each NodeRunning event carries the number of NodeDone events forwarded
\* before it plus one; the completed count is the number of NodeDone events,
\* so it never decreases and changes only on NodeDone.
C20_CurrentIndexCountsCompletedNodes ==
  /\ \A i \in 1..Len(delivered) :
       /\ delivered[i].type = "node_done"
            => delivered[i].currentNode = DoneAmong(i)
       /\ delivered[i].type = "node_running"
            => delivered[i].currentNode = DoneAmong(i - 1) + 1
  /\ runOptions.onProgress => completedNodes = DoneAmong(Len(delivered))

\* a second node starts after the first one is done
C20_Witness ==
  /\ Len(delivered) >= 3
  /\ delivered[1].type = "node_running" /\ delivered[1].currentNode = 1
  /\ delivered[2].type = "node_done" /\ delivered[2].currentNode = 1
  /\ delivered[3].type = "node_running" /\ delivered[3].currentNode = 2
  /\ completedNodes = 1


\* N of the latest 'Workflow started (N nodes)' event among the first n
\* delivered events, 0 if there is none
RECURSIVE LastAnnounced(_)
LastAnnounced(n) ==
  IF n = 0 THEN 0
  ELSE IF delivered[n].type = "started" THEN delivered[n].totalNodes
  ELSE LastAnnounced(n - 1)

\* C21: the totalNodes annotation of every forwarded NodeRunning and
\* NodeDone event is the node count N of the most recent 'Workflow started
\* (N nodes)' line before it, for every N >= 0, a later announcement of 0
\* included, and 0 when there was no such line.
C21_TotalIsTheLastAnnouncement ==
  \A i \in 1..Len(delivered) :
    delivered[i].type \in {"node_running", "node_done"}
      => delivered[i].totalNodes = LastAnnounced(i - 1)

\* the result of a terminated child as a function of what it wrote and of
\* its exit code alone
ResultOf(out, err, code) ==
  CASE ~Blank(out) /\ JSONparse(out).ok -> JSONparse(out).value
    [] ~Blank(out) /\ ~JSONparse(out).ok -> [success |-> FALSE, error |-> out]
    [] Blank(out) /\ ~Blank(err) /\ JSONparse(err).ok -> JSONparse(err).value
    [] Blank(out) /\ ~Blank(err) /\ ~JSONparse(err).ok
         -> [success |-> FALSE, error |-> trim(err)]
    [] OTHER -> [success |-> FALSE,
                 error |-> <<"Process exited with code ">> \o RenderedCode(code)]

\* no line of the text contains one of the four forms
MatchesNothing(text) ==
  \A k \in 1..Len(split(text)) : NoForm(split(text)[k])

\* C22: progress parsing never affects the outcome: the result is fixed by
\* the final stdout, stderr and exit code, with or without an observer,
\* with or without verbose pass-through, whichever lines match; a run whose
\* diagnostic lines match nothing delivers no event and still completes.
C22_ProgressNeverAffectsTheOutcome ==
  /\ ClosedFirst => ResolvedWith(ResultOf(stdout, stderr, terminal[1].code))
  /\ MatchesNothing(stderr) => delivered = <<>>
  /\ runOptions.verbose => echoed = stderr

\* an observed, verbose run whose stderr is not blank and matches nothing:
\* no event, everything echoed, and the stdout document is the result
C22_Witness ==
  /\ ClosedFirst
  /\ runOptions = [verbose |-> TRUE, onProgress |-> TRUE]
  /\ ~Blank(stderr)
  /\ MatchesNothing(stderr)
  /\ delivered = <<>>
  /\ echoed = stderr
  /\ ResolvedWith([success |-> TRUE, output |-> [answer |-> "42"]])

\* the events an observer receives when the text arrives as one chunk
EventsOfText(text) ==
  progressLines([completedNodes |-> 0, totalNodes |-> 0,
                 parsed |-> <<>>, delivered |-> <<>>],
                split(text), TRUE).delivered

\* C30: the events delivered to the observer depend only on what the child
\* wrote to stderr, not on how the stream is cut into chunks, a cut in the
\* middle of a line included.
C30_EventsDoNotDependOnChunking ==
  runOptions.onProgress => delivered = EventsOfText(stderr)


\* ---------------------------------------------------- claims on termination
\* C24: provided every invocation of the operation settles and every backoff
\* timer fires, withRetry settles (resolves or rejects) after at most
\* maxRetries + 1 invocations, whatever the retry predicate answers; it never
\* retries forever.
C24_WithRetryAlwaysSettles ==
  /\ <>(settled.state # "pending")
  /\ [](calls <= maxRetriesOf(options) + 1)
  /\ [][settled.state # "pending" => settled' = settled]_vars

\* a predicate given by the caller accepted every error and withRetry gave
\* up after maxRetries + 1 = 3 invocations
C24_Witness ==
  /\ "shouldRetry" \in DOMAIN options
  /\ maxRetriesOf(options) = 2
  /\ asked = 2
  /\ calls = 3
  /\ settled.state = "rejected"
  /\ pc = "rejected"


\* ------------------------------------- claims about findPython, ensurePython
\* major and minor of what --version printed, for the outputs considered
ClaimedVersion(output) ==
  IF output = <<"Python ", "3", ".", "1", "2", ".", "4", "\n">>
  THEN [parsed |-> TRUE, major |-> 3, minor |-> 12]
  ELSE IF output = <<"Python ", "3", ".", "9", ".", "1", "8", "\n">>
  THEN [parsed |-> TRUE, major |-> 3, minor |-> 9]
  ELSE IF output = <<"Python ", "4", ".", "1", "2", ".", "0", "\n">>
  THEN [parsed |-> TRUE, major |-> 4, minor |-> 12]
  ELSE [parsed |-> FALSE]

\* the candidate is on the search path, its version probe succeeds and its
\* version is 3.12 or later within major 3
Qualifies(name) ==
  /\ machine.which[name] # Null
  /\ LET v == ClaimedVersion(machine.versions[machine.which[name]])
     IN  v.parsed /\ v.major = 3 /\ v.minor >= 12

FirstQualifying ==
  IF Qualifies("python3") THEN machine.which["python3"]
  ELSE IF Qualifies("python") THEN machine.which["python"]
  ELSE Null

IsWhich(entry) == entry.op = "which"
IsInstall(entry) == entry.op = "install"

\* the names which() was called with, in order
RECURSIVE Args(_)
Args(entries) ==
  IF entries = <<>> THEN <<>> ELSE <<Head(entries).arg[1]>> \o Args(Tail(entries))

Examined == Args(SelectSeq(log, IsWhich))

\* findPython has been called and has settled
FindSettled == frame.pc \in {"resume", "done"} /\ Examined # <<>>

\* C25: findPython examines 'python3' then 'python' and returns the resolved
\* path of the first one that is on the search path, whose version probe
\* succeeds and whose version has major 3 and minor >= 12; a candidate that
\* is missing, fails to execute or has an unparsable or too old version is
\* skipped without raising; null is returned when none qualifies.
C25_FindPythonReturnsFirstQualifying ==
  /\ FindSettled
       => /\ frame.found = FirstQualifying
          /\ Examined = IF Qualifies("python3")
                        THEN <<"python3">>
                        ELSE <<"python3", "python">>
  /\ (frame.caller = "findPython" /\ frame.pc = "done")
       => returned = [kind |-> "return", value |-> FirstQualifying]

\* python3 is Python 3.9.18 and is skipped; python is 3.12.4 and is returned
C25_Witness ==
  /\ frame.caller = "findPython"
  /\ frame.pc = "done"
  /\ machine.which["python3"] = Python3Path
  /\ machine.versions[Python3Path] = <<"Python ", "3", ".", "9", ".", "1", "8", "\n">>
  /\ machine.versions[PythonPath] = <<"Python ", "3", ".", "1", "2", ".", "4", "\n">>
  /\ returned = [kind |-> "return", value |-> PythonPath]

\* the paths this call installed the dependency at
InstalledByCall ==
  { log[k].arg : k \in { j \in 1..Len(log) : log[j].op = "install" /\ log[j].ok } }

\* the paths that had the dependency when the call started
ImportableAtStart == machine.importable \ InstalledByCall

\* the configured python_path exists on disk and has the dependency, as
\* found at the start of the call
ConfiguredReady ==
  /\ config.python_path # Null
  /\ config.python_path \in machine.files
  /\ config.python_path \in ImportableAtStart

VenvPython == getVenvPythonPath(machine, config.venv_dir)

VenvReady ==
  /\ config.venv_dir # Null
  /\ VenvPython \in machine.files
  /\ VenvPython \in ImportableAtStart

\* the dependency was seen importable at the path, or installed there
\* without error, during this call
DependencyEnsuredAt(path) ==
  \E k \in 1..Len(log) :
    log[k].op \in {"import", "install"} /\ log[k].arg = path /\ log[k].ok

\* C26: ensurePython takes the configured python_path if it exists and has
\* the dependency, otherwise the python of the configured managed
\* environment if that is valid and has the dependency, otherwise the
\* interpreter found by findPython; a returned path had the dependency seen
\* importable at that very path, or installed there without error, by this
\* call.
C26_EnsurePythonPriorityOrder ==
  frame.caller = "ensurePython"
    => /\ returned.kind = "return"
            => /\ returned.value =
                    IF ConfiguredReady THEN config.python_path
                    ELSE IF VenvReady THEN VenvPython
                    ELSE FirstQualifying
               /\ returned.value # Null
               /\ DependencyEnsuredAt(returned.value)
       /\ (frame.pc = "done" /\ (ConfiguredReady \/ VenvReady))
            => returned.kind = "return" /\ Examined = <<>>

\* both configured runtimes are on disk, python_path without the
\* dependency: the python of the managed environment is returned
C26_Witness ==
  /\ frame.caller = "ensurePython"
  /\ config.python_path \in machine.files
  /\ config.python_path \notin machine.importable
  /\ VenvReady
  /\ Qualifies("python3")
  /\ Len(log) = 2
  /\ returned = [kind |-> "return", value |-> VenvPython]

\* C27: a terminal failure ends the command with a non-zero exit status
\* after an error message has been printed and is never retried: when
\* findPython returns null nothing is installed and no path is returned;
\* when the installation fails the installer is not run again and no path
\* is returned; the installer runs at most once per call.
C27_TerminalFailuresAreFatal ==
  frame.caller = "ensurePython"
    => /\ Len(SelectSeq(log, IsInstall)) <= 1
       /\ returned.kind = "exit"
            => /\ returned.code # 0
               /\ Len(log) >= 2
               /\ log[Len(log)] = [op |-> "exit", arg |-> <<"1">>, ok |-> TRUE]
               /\ log[Len(log) - 1].op = "error"
               /\ log[Len(log) - 1].arg # <<>>
       /\ (frame.pc = "done" /\ ~ConfiguredReady /\ ~VenvReady
             /\ FirstQualifying = Null)
            => /\ returned.kind = "exit"
               /\ SelectSeq(log, IsInstall) = <<>>
       /\ (\E k \in 1..Len(log) : log[k].op = "install" /\ ~log[k].ok)
            => returned.kind = "exit"

\* an interpreter was found without the dependency and pip failed
C27_Witness ==
  /\ frame.caller = "ensurePython"
  /\ frame.found = Python3Path
  /\ SelectSeq(log, IsInstall) = <<[op |-> "install", arg |-> Python3Path, ok |-> FALSE]>>
  /\ log[Len(log) - 1] = Printed("error", InstallFailedMessage)
  /\ returned = [kind |-> "exit", code |-> 1]


\* ---- classifyPythonError

\* classifyPythonError has returned
Classified == "message" \in DOMAIN classified

\* C28: for every input, the empty string and inputs of only whitespace or
\* only traceback lines included, classifyPythonError returns a
\* ClassifiedError whose message is a non-empty string
C28_MessageIsNeverEmpty == Classified => classified.message # <<>>

\* the order of the categories as the claim states it
ClaimedOrder ==
  <<"missing-dependency", "authentication-failure", "field-validation",
    "connection-failure", "file-not-found", "timeout", "rate-limit">>

\* the categories whose markers the text contains
MarkedCategories(raw) ==
  { k \in 1..Len(ClaimedOrder) : matches(ClaimedOrder[k], raw) }

\* the earliest category of the claimed order whose markers the text
\* contains, the default when it contains none
EarliestClaimed(raw) ==
  IF MarkedCategories(raw) = {} THEN "default"
  ELSE ClaimedOrder[CHOOSE k \in MarkedCategories(raw) :
                      \A j \in MarkedCategories(raw) : k <= j]

\* C29: the result is the one of the earliest category, in the order
\* missing-dependency, authentication-failure, field-validation,
\* connection-failure, file-not-found, timeout, rate-limit, whose markers
\* the input contains, and the result of the default branch only when the
\* input contains no marker of any category
C29_FirstMatchingCategoryWins ==
  Classified =>
    /\ classified = resultOf(EarliestClaimed(errorText), errorText)
    /\ MarkedCategories(errorText) # {}
         => classified # resultOf("default", errorText)

\* an input with the markers of the connection-failure, file-not-found,
\* timeout and rate-limit categories was classified as a connection failure
C29_Witness ==
  /\ Classified
  /\ MarkedCategories(errorText) = {4, 5, 6, 7}
  /\ classified.message = <<"Network connection failed.">>


\* ---- two calls in flight

\* what a call produces running alone, given the events of its own child
RECURSIVE Alone(_, _)
Alone(c, events) ==
  IF events = <<>> THEN c ELSE Alone(handle(c, Head(events)), Tail(events))

\* C23: for every interleaving of the stdout, stderr and close events of two
\* calls in flight at the same time, each call's buffers, completed-node
\* count, total-node count, progress annotations and final result are those
\* it would have running alone on its own child's events
C23_CallsShareNoState ==
  runs # <<>> => \A id \in CallIds : runs[id] = Alone(FreshCall, history[id])

\* both calls received output while the other was in flight, one has
\* resolved and the other has not, and their states differ
C23_Witness ==
  /\ runs # <<>>
  /\ \A id \in CallIds : \E k \in 1..Len(history[id]) : history[id][k].kind = "stderr"
  /\ runs[1].promise.state = "resolved"
  /\ runs[2].promise.state = "pending"
  /\ runs[1].delivered # <<>>
  /\ runs[2].delivered # runs[1].delivered
  /\ runs[2].totalNodes # runs[1].totalNodes


\* ------------------------------------------------ claims on the command flows
\* C31: for every integer maxRetries, 0 and negative values included, a
\* rejection of withRetry comes after at least one invocation of the
\* operation and carries an error that an invocation raised, never undefined
C31_NeverRejectsWithoutRunning ==
  settled.state = "rejected" =>
    /\ calls >= 1
    /\ settled.error # Undefined
    /\ outcome.kind = "throw" /\ settled.error = outcome.error


\* a submission of FabricClient.enqueueWorkflow
IsSubmission(request) ==
  /\ request.method = "POST"
  /\ request.body = enqueueBody(call.workflow, call.input)

\* the latest attempt got a response with a success status
SuccessStatus == response.kind = "response" /\ responseOk(response.status)

\* C32: during one enqueueWorkflow call at most maxRetries + 1 POSTs are
\* sent; a POST is sent only while no other is in flight; every POST after
\* the first is sent only after the previous attempt failed with an error
\* the retry predicate accepts and its backoff has elapsed; and no POST is
\* sent after an attempt has returned a success status
C32_SubmissionsAreSequentialAndBounded ==
  [][ (caller = "FabricClient" /\ call.op = "enqueueWorkflow" /\ requests' # requests)
        => /\ pc # "awaitFn"
           /\ \E request \in {fetchRequest(client, call)} :
                /\ IsSubmission(request)
                /\ requests' = Append(requests, request)
           /\ Len(requests') <= maxRetriesOf(options) + 1
           /\ requests # <<>>
                => /\ outcome.kind = "throw"
                   /\ shouldRetry(options, outcome.error)
                   /\ Len(delays) = Len(requests)
                   /\ timer = -1
                   /\ ~SuccessStatus ]_vars


\* ---- ensurePython and the configured runtimes

\* the configured runtimes that were on disk without the dependency when the
\* call started
SkippedRuntimes ==
  { path \in (IF config.python_path # Null THEN {config.python_path} ELSE {})
               \cup (IF config.venv_dir # Null THEN {VenvPython} ELSE {}) :
      path \in machine.files /\ path \notin ImportableAtStart }

\* the paths the installer was run on
InstallTargets ==
  { log[k].arg : k \in { j \in 1..Len(log) : log[j].op = "install" } }

Started(ops) == { i \in 1..Len(trail) : trail[i].op \in ops }

LocalOps == {"ensurePython", "runWorkflow"}
RemoteOps == {"discover", "enqueueWorkflow"}

\* the command ended with a non-zero exit code
ExitedNonZero ==
  /\ step = "exited"
  /\ trail # <<>>
  /\ trail[Len(trail)].op = "exit"
  /\ trail[Len(trail)].arg # <<"0">>

\* the file is there and holds JSON, and every --input item has an "="
ChecksPass ==
  /\ store.workflowFile = "json"
  /\ \A i \in 1..Len(command.input) :
       \E k \in 1..Len(command.input[i]) : command.input[i][k] = "="

\* a settlement of discover() with a non-empty list of nodes
FoundNodes(entry) ==
  /\ entry.op = "settled"
  /\ entry.arg.kind = "resolve"
  /\ entry.arg.value.type = "array"
  /\ entry.arg.value.length >= 1

\* C33: in a remote workflow run the submission is started only after
\* discover has returned a non-empty list of nodes; without a configured
\* Fabric URL or key no request is made at all; and when discover fails or
\* returns an empty list or something that is no list, the command exits
\* non-zero and the submission is never sent
C33_DiscoveryPrecedesSubmission ==
  (command.name = "workflow run" /\ command.remote)
    => /\ (store.config.fabric_url = Null \/ store.config.fabric_api_key = Null)
            => Started(RemoteOps) = {}
       /\ \A i \in Started({"enqueueWorkflow"}) :
            /\ i > 2
            /\ trail[1].op = "discover"
            /\ \E k \in 2..(i - 1) : FoundNodes(trail[k])
       /\ \A k \in Started({"settled"}) :
            (trail[k - 1].op = "discover" /\ ~FoundNodes(trail[k]))
              => /\ ExitedNonZero
                 /\ Started({"enqueueWorkflow"}) = {}

\* discover returned two nodes and the workflow was submitted
C33_Witness ==
  /\ command.name = "workflow run"
  /\ step = "awaitEnqueue"
  /\ \E k \in 1..Len(trail) : FoundNodes(trail[k]) /\ trail[k].arg.value.length = 2
  /\ trail[Len(trail)].op = "enqueueWorkflow"

\* C36: when the file is missing or holds no JSON, or an --input item has
\* no "=", the command exits non-zero without resolving a runtime, spawning
\* a child or calling the remote client; otherwise the local path is taken
\* exactly when --remote is absent and the remote path exactly when it is
\* present, never both
C36_NoExecutionBeforeChecksPass ==
  (command.name = "workflow run" /\ step # "start")
    => /\ ~ChecksPass
            => /\ ExitedNonZero
               /\ Started(LocalOps \cup RemoteOps) = {}
       /\ (ChecksPass /\ ~command.remote)
            => /\ trail[1].op = "ensurePython"
               /\ Started(RemoteOps) = {}
       /\ (ChecksPass /\ command.remote)
            => /\ \/ trail[1].op = "discover"
                  \/ /\ trail[1].op = "error"
                     /\ ~fabricConfigured(store.config)
               /\ Started(LocalOps) = {}

\* the file is fine, the second of two --input items has no "=", and the
\* command has exited after the error message
C36_Witness ==
  /\ command.name = "workflow run"
  /\ store.workflowFile = "json"
  /\ Len(command.input) = 2
  /\ command.input[1] = <<"q", "=", "1">>
  /\ command.input[2] = <<"q">>
  /\ ExitedNonZero
  /\ Len(trail) = 2


\* ---- the 'fabric login' command

\* the configuration file as it was when the command started
StoredAtStart == trail[1].arg

\* the positions of the trail where status() resolved
Verified == { k \in Started({"settled"}) : trail[k].arg.kind = "resolve" }

\* C35: saveConfig is called with the new fabric_url and fabric_api_key only
\* after status() has succeeded on a client made of that URL and that key;
\* when the key is empty or status() fails, the command exits non-zero and
\* the stored configuration is what it was
C35_SavedOnlyAfterVerification ==
  (command.name = "fabric login" /\ step # "start")
    => /\ \A i \in Started({"saveConfig"}) :
            \E k \in Verified :
              /\ k < i
              /\ trail[k - 1].op = "status"
              /\ trail[k - 1].arg.client
                   = FabricClient(trail[i].arg.fabric_url, trail[i].arg.fabric_api_key,
                                  EmptyOptions)
              /\ store.config = trail[i].arg
       /\ Started({"saveConfig"}) = {} => store.config = StoredAtStart
       /\ \/ /\ Len(trail) >= 5
             /\ trail[5].op = "answer"
             /\ trim(trail[5].arg) = <<>>
          \/ \E k \in Started({"settled"}) : trail[k].arg.kind = "reject"
          => /\ ExitedNonZero
             /\ Started({"saveConfig"}) = {}
             /\ store.config = StoredAtStart

\* a URL with a trailing slash and a key typed with spaces around it were
\* verified and saved over the stored credentials
C35_Witness ==
  /\ command.name = "fabric login"
  /\ step = "done"
  /\ StoredAtStart.fabric_api_key = FabricKey
  /\ store.config.fabric_api_key = <<"key-2">>
  /\ store.config.fabric_url = <<"https://other.example", "/">>
  /\ store.config.default_model = StoredAtStart.default_model
  /\ Started({"saveConfig"}) # {}

====
